---- MODULE Spec2Model ----
(***************************************************************************)
(* Verification model of the lead-enrichment backend:                      *)
(*   - QueuedRateLimiter (token bucket + concurrency cap + FIFO queue)     *)
(*   - PhoneProvider.execute, retryWithBackoff, ProviderRegistry           *)
(*   - phoneLookupWorkflow with its two activities                         *)
(*   - the fan-out of concurrent lookups over the Temporal workers         *)
(*   - JobTracker                                                          *)
(*   - the batch enrichment orchestrators (processEnrichment in the API    *)
(*     process, batchEnrichmentWorkflow with updateLeadAndNotify)          *)
(*                                                                         *)
(* Time is the integer millisecond clock Date.now().  The limiter keeps    *)
(* `tokens` as a fraction; refillRate = maxTokens / timeWindow, so every   *)
(* value `tokens` can take is a multiple of 1/timeWindow.  The model holds *)
(* tokens in units of 1/timeWindow token (one whole token = timeWindow     *)
(* units), which makes the arithmetic exact over the integers.             *)
(***************************************************************************)
EXTENDS Integers, Sequences, FiniteSets, Bags, TLC

\* ------------------------------------------------------------------ bounds
MaxRequests ==
    3
BurstRequests ==
    5
MaxThrowing ==
    1
MaxTime ==
    4
MaxDrift ==
    1
MaxTokensArg ==
    3
TimeWindowArg ==
    3
MaxConcurrentArg ==
    2
MaxLookups ==
    3
MaxFanTime ==
    1
MaxLeads ==
    2
MaxJobs ==
    2
MaxLeadCount ==
    1
MaxIncrements ==
    2
MaxRandom ==
    2
MaxTicks ==
    1
MaxPriority ==
    3
MaxConfigs ==
    3
MaxWrites ==
    2
\* callers of execute that are cancelled while their waiter is queued
MaxCancelled ==
    1
\* lookups whose HTTP attempts meet retryable failures
MaxRetrying ==
    1
\* workflow starts followed by the dispatch specification
MaxDispatches ==
    3
\* sockets connected to the socket.io server
MaxSockets ==
    2
\* subscriptions, disconnections and publications followed on the bus
MaxBusEvents ==
    5

\* ------------------------------------------------------------------ state
VARIABLES
    \* QueuedRateLimiter fields
    maxTokens, timeWindow, maxConcurrent,
    tokens, lastRefill, queue, activeRequests,
    \* runtime around the limiter
    now,          \* Date.now()
    timers,       \* bag of due times of pending setTimeout(processQueue)
    running,      \* admitted requests whose callable's promise is pending
    finishing,    \* requests settled by .then/.catch whose .finally has not run
    \* observation of one limiter's history
    nextId,       \* number of execute calls made so far
    fnKind,       \* callable r is "async" or throws before returning a promise
    calls,        \* how many times callable r was invoked
    fnResult,     \* how the promise callable r returned has settled
    promise,      \* state of the promise execute returned for call r
    enqAt,        \* Date.now() at execute call r
    admitLog,     \* admissions in order: [req, at], with the tokens and
                  \* activeRequests canProcessRequest saw before it
    cancelled,    \* execute calls whose caller was cancelled while queued
    \* one run of phoneLookupWorkflow
    configs,      \* PROVIDER_CONFIGS
    wfPc,         \* position of the workflow: init, orion, secondary, done
    activity,     \* the activity (workflow step) in flight
    callLog,      \* names of the providers whose execute was called, in order
    httpCalls,    \* HTTP attempts made per provider
    httpLog,      \* per provider: what each HTTP attempt met, in order
    execResult,   \* what PhoneProvider.execute returned, per provider
    failedSteps,  \* activities the engine reported as failed
    wfResult,     \* value the workflow returned
    \* ProviderRegistry instance under inspection
    registry,     \* this.providers of the registry built last, or unbuilt
    lookedUp,     \* the last getProvider(name) call and what it returned
    \* concurrent phone lookups over the Temporal workers
    fanout,       \* per lookup: workflow position, activity, its limiters
    fanNow,       \* Date.now() of the worker process
    provAdmits,   \* per provider: instants at which a limiter admitted a call
    \* JobTracker
    jobs,         \* this.jobs: job id -> Job
    returnedIds,  \* ids the create calls returned, in call order
    trNow,        \* Date.now() of the API process
    trTicks,      \* clock advances so far
    cleanupTimers,\* pending setTimeout(delete) of cleanup: [id, due]
    observed,     \* what getJob / isComplete returned, when called last
    \* one batch enrichment
    orchestrator, \* which processEnrichment serves enrichLeads
    leads,        \* the lead rows read by enrichLeads
    operations,   \* the operations requested
    jobId,        \* id createEnrichmentJob returned
    batchPc,      \* position of the orchestrator
    cell,         \* position of each (lead, operation) cell
    events,       \* per cell: events emitted to the job's room, in order
    jobEvents,    \* job-complete events emitted to the job's room
    extCalls,     \* per cell: workflows started for it
    dbWrites,     \* per cell: prisma.lead.update calls issued for it
    progressed,   \* leads whose incrementProgress call was made
    \* what the API process hands to the workflow engine
    dispatched,   \* workflow starts: operation, lead id, job id, workflowId
    \* the progress bus: SocketService and the socket.io server
    io,           \* SocketService.io: null, or the server setIO attached
    rooms,        \* per connected socket: the rooms it joined
    inbox,        \* per socket: the publications it received
    busLog        \* subscriptions, disconnections, setIO and emit calls in order

limiterVars ==
    << maxTokens, timeWindow, maxConcurrent, tokens, lastRefill, queue,
       activeRequests, now, timers, running, finishing, nextId, fnKind, calls, fnResult,
       promise, enqAt, admitLog, cancelled >>

lookupVars ==
    << configs, wfPc, activity, callLog, httpCalls, httpLog, execResult,
       failedSteps, wfResult >>

registryVars ==
    << registry, lookedUp >>

fanoutVars ==
    << fanout, fanNow, provAdmits >>

trackerVars ==
    << jobs, returnedIds, trNow, trTicks, cleanupTimers, observed >>

enrichVars ==
    << orchestrator, leads, operations, jobId, batchPc, cell, events,
       jobEvents, extCalls, dbWrites, progressed >>

outboundVars ==
    << dispatched, io, rooms, inbox, busLog >>

\* what an action of one component leaves alone
batchSideVars ==
    << registryVars, fanoutVars, trackerVars, enrichVars, outboundVars >>

Requests ==
    1..(IF MaxRequests >= BurstRequests THEN MaxRequests ELSE BurstRequests)

Pending ==
    [state |-> "pending", value |-> 0]

Min(a, b) ==
    IF a <= b THEN a ELSE b

\* Math.ceil(a / b) for a >= 0, b > 0
CeilDiv(a, b) ==
    (a + b - 1) \div b

\* ---------------------------------------------------------------- limiter
\* A limiter run works on a record L of the mutable fields it touches.
LimiterState ==
    [tokens |-> tokens, lastRefill |-> lastRefill, queue |-> queue,
     activeRequests |-> activeRequests, now |-> now, timers |-> timers,
     running |-> running, calls |-> calls, admitLog |-> admitLog,
     threw |-> FALSE]

\* Date.now() may have advanced between two reads inside one handler.
ClockReads(L) ==
    { [L EXCEPT !.now = L.now + d] : d \in 0..Min(MaxDrift, MaxTime - L.now) }

\* refill() without the Math.min
refill_unclamped(L) ==
    LET elapsed   == L.now - L.lastRefill
        newTokens == elapsed * maxTokens
    IN  IF newTokens > 0
        THEN [L EXCEPT !.tokens = L.tokens + newTokens, !.lastRefill = L.now]
        ELSE L

\* refill(): lazy conversion of elapsed time to tokens, clamped at maxTokens
refill(L) ==
    LET elapsed   == L.now - L.lastRefill
        newTokens == elapsed * maxTokens
    IN  IF newTokens > 0
        THEN [L EXCEPT !.tokens = Min(maxTokens * timeWindow, L.tokens + newTokens),
                       !.lastRefill = L.now]
        ELSE L

\* canProcessRequest without the concurrency test
canProcessRequest_tokensOnly(L) ==
    L.tokens >= timeWindow

\* the boolean canProcessRequest() returns, on the state refill() left
canProcessRequest(L) ==
    L.activeRequests < maxConcurrent /\ L.tokens >= timeWindow

\* consumeToken() that leaves the bucket as it was
consumeToken_free(L) ==
    L

\* this.tokens -= 1
consumeToken(L) ==
    [L EXCEPT !.tokens = L.tokens - timeWindow]

getWaitTime(L) ==
    IF L.tokens >= timeWindow
    THEN 0
    ELSE CeilDiv(timeWindow - L.tokens, maxTokens)

\* queue.pop() in place of queue.shift()
shift_pop(q) ==
    [request |-> q[Len(q)], rest |-> SubSeq(q, 1, Len(q) - 1)]

\* which waiter the loop takes: queue.shift()
shift(q) ==
    [request |-> Head(q), rest |-> Tail(q)]

\* body of the while loop: shift, activeRequests++, consumeToken, request.execute()
admit(L) ==
    LET s  == shift(L.queue)
        fn == s.request.execute
        r  == fn.id
        L1 == consumeToken([L EXCEPT !.queue = s.rest,
                                     !.activeRequests = L.activeRequests + 1])
        L2 == [L1 EXCEPT !.calls[r] = L1.calls[r] + 1,
                         !.admitLog = Append(L1.admitLog,
                            [req |-> r, at |-> L1.now, tokens |-> L.tokens,
                             activeRequests |-> L.activeRequests])]
    IN  IF fn.kind = "throws"
        THEN [L2 EXCEPT !.threw = TRUE]
        ELSE [L2 EXCEPT !.running = L2.running \cup {s.request}]

\* the trailing if of processQueue: schedule a retry when still blocked
scheduleRetry(L) ==
    IF Len(L.queue) = 0
    THEN { L }
    ELSE UNION { LET L1 == refill(C) IN
                 IF ~canProcessRequest(L1)
                 THEN LET waitTime == getWaitTime(L1) IN
                      IF waitTime > 0
                      THEN { [L1 EXCEPT !.timers =
                                 L1.timers (+) SetToBag({L1.now + waitTime})] }
                      ELSE { L1 }
                 ELSE { L1 }
               : C \in ClockReads(L) }

RECURSIVE processQueue(_)
\* every state one synchronous run of processQueue can leave behind
processQueue(L) ==
    IF Len(L.queue) = 0
    THEN scheduleRetry(L)
    ELSE UNION { LET L1 == refill(C) IN
                 IF canProcessRequest(L1)
                 THEN LET L2 == admit(L1) IN
                      IF L2.threw THEN { L2 } ELSE processQueue(L2)
                 ELSE scheduleRetry(L1)
               : C \in ClockReads(L) }

Install(L) ==
    /\ tokens' = L.tokens
    /\ lastRefill' = L.lastRefill
    /\ queue' = L.queue
    /\ activeRequests' = L.activeRequests
    /\ now' = L.now
    /\ timers' = L.timers
    /\ running' = L.running
    /\ calls' = L.calls
    /\ admitLog' = L.admitLog

\* constructor(maxRequests, timeWindow, maxConcurrent)
constructor(maxRequests, window, concurrent) ==
    /\ maxTokens = maxRequests
    /\ timeWindow = window
    /\ maxConcurrent = concurrent
    /\ tokens = maxRequests * window
    /\ now = 0
    /\ lastRefill = now
    /\ queue = << >>
    /\ activeRequests = 0
    /\ timers = EmptyBag
    /\ running = {}
    /\ finishing = {}
    /\ nextId = 0
    /\ fnKind = [r \in Requests |-> "none"]
    /\ calls = [r \in Requests |-> 0]
    /\ fnResult = [r \in Requests |-> Pending]
    /\ promise = [r \in Requests |-> Pending]
    /\ enqAt = [r \in Requests |-> 0]
    /\ admitLog = << >>
    /\ cancelled = {}

\* execute(fn): push the waiter, run processQueue
Execute(kind, limit) ==
    /\ nextId < limit
    /\ kind = "throws" => Cardinality({r \in Requests : fnKind[r] = "throws"}) < MaxThrowing
    /\ LET r  == nextId + 1
           fn == [id |-> r, kind |-> kind]
           L  == [LimiterState EXCEPT
                    !.queue = Append(queue, [execute |-> fn, resolve |-> r])]
       IN  /\ nextId' = r
           /\ fnKind' = [fnKind EXCEPT ![r] = kind]
           /\ enqAt' = [enqAt EXCEPT ![r] = now]
           /\ \E L2 \in processQueue(L) : Install(L2)
    /\ UNCHANGED << cancelled, maxTokens, timeWindow, maxConcurrent, finishing, fnResult,
                    promise >>

\* a chain that swallows the failure: .catch(() => resolve(undefined))
settle_swallow(request, result) ==
    [promise EXCEPT ![request.resolve] =
        IF result.state = "fulfilled"
        THEN [state |-> "fulfilled", value |-> result.value]
        ELSE [state |-> "fulfilled", value |-> 0]]

\* the .then/.catch chain: resolve(result) on fulfilment, reject(error) on rejection
settle(request, result) ==
    [promise EXCEPT ![request.resolve] =
        IF result.state = "fulfilled"
        THEN [state |-> "fulfilled", value |-> result.value]
        ELSE [state |-> "rejected", value |-> result.value]]

\* the promise of an admitted callable settles and the .then or .catch
\* callback runs.  Callable r yields the value (or error) r.  The .finally
\* callback is a later microtask: the caller resumed by resolve/reject runs
\* before it and may call execute again.
Complete(request, outcome) ==
    /\ request \in running
    /\ LET result == [state |-> outcome, value |-> request.execute.id]
       IN  /\ fnResult' = [fnResult EXCEPT ![request.execute.id] = result]
           /\ promise' = settle(request, result)
    /\ running' = running \ {request}
    /\ finishing' = finishing \cup {request}
    /\ UNCHANGED << cancelled, maxTokens, timeWindow, maxConcurrent, tokens, lastRefill,
                    queue, activeRequests, now, timers, nextId, fnKind, calls,
                    enqAt, admitLog >>

\* the .finally callback: activeRequests--, processQueue()
Finally(request) ==
    /\ request \in finishing
    /\ finishing' = finishing \ {request}
    /\ LET L == [LimiterState EXCEPT !.activeRequests = activeRequests - 1]
       IN  \E L2 \in processQueue(L) : Install(L2)
    /\ UNCHANGED << cancelled, maxTokens, timeWindow, maxConcurrent, nextId, fnKind, enqAt,
                    fnResult, promise >>

\* a pending setTimeout(() => this.processQueue(), waitTime) fires
TimerFire(due) ==
    /\ BagIn(due, timers)
    /\ due <= now
    /\ finishing = {}      \* timers run once the microtask queue is empty
    /\ LET L == [LimiterState EXCEPT !.timers = timers (-) SetToBag({due})]
       IN  \E L2 \in processQueue(L) : Install(L2)
    /\ UNCHANGED << cancelled, maxTokens, timeWindow, maxConcurrent, nextId, fnKind, enqAt,
                    finishing, fnResult, promise >>

\* the clock advances while no handler runs
Tick ==
    /\ now < MaxTime
    /\ now' = now + 1
    /\ UNCHANGED << cancelled, maxTokens, timeWindow, maxConcurrent, tokens, lastRefill,
                    queue, activeRequests, timers, running, finishing, nextId,
                    fnKind, calls, fnResult, promise, enqAt, admitLog >>

\* ------------------------------------------------- providers and registry
None ==
    "null"

ProviderNames ==
    << "Orion Connect", "Astra Dialer", "Nimbus Lookup" >>

\* costPerRequest is held in 1/1000 USD: 0.02, 0.01, 0.015
PROVIDER_CONFIGS(enabled) ==
    << [name |-> "Orion Connect", priority |-> 1, costPerRequest |-> 20,
        rateLimit |-> 5, timeWindow |-> 1000, maxConcurrent |-> 3,
        enabled |-> enabled[1], timeout |-> 10000],
       [name |-> "Astra Dialer", priority |-> 2, costPerRequest |-> 10,
        rateLimit |-> 10, timeWindow |-> 1000, maxConcurrent |-> 10,
        enabled |-> enabled[2], timeout |-> 10000],
       [name |-> "Nimbus Lookup", priority |-> 3, costPerRequest |-> 15,
        rateLimit |-> 2, timeWindow |-> 1000, maxConcurrent |-> 2,
        enabled |-> enabled[3], timeout |-> 10000] >>

\* the phone number a provider's backend holds for the lead
PhoneOf(name) ==
    CASE name = "Orion Connect" -> "+1-555"
      [] name = "Astra Dialer"  -> "+1-777"
      [] OTHER                  -> "+1-999"

RECURSIVE insertByPriority(_, _)
insertByPriority(c, sorted) ==
    IF sorted = << >>
    THEN << c >>
    ELSE IF c.priority < Head(sorted).priority
         THEN << c >> \o sorted
         ELSE << Head(sorted) >> \o insertByPriority(c, Tail(sorted))

RECURSIVE sortByPriority(_)
\* Array.prototype.sort((a, b) => a.priority - b.priority): stable, ascending
sortByPriority(cs) ==
    IF cs = << >>
    THEN << >>
    ELSE insertByPriority(cs[Len(cs)], sortByPriority(SubSeq(cs, 1, Len(cs) - 1)))

IsEnabled(c) ==
    c.enabled

\* a registry that keeps the disabled configs
getProviders_unfiltered(cs) ==
    sortByPriority(cs)

\* new ProviderRegistry().getProviders(): enabled configs, by priority
getProviders(cs) ==
    sortByPriority(SelectSeq(cs, IsEnabled))

IsOrion(c) ==
    c.name = "Orion Connect"

IsNotOrion(c) ==
    c.name # "Orion Connect"

maxRetries ==
    3

\* the sleep after failed attempt number `attempt`: Math.pow(2, attempt) * 1000
backoffTime(attempt) ==
    (2 ^ attempt) * 1000

\* startToCloseTimeout of orionActivities and secondaryActivities, ms
startToCloseTimeout ==
    30000

\* one pass of the retryWithBackoff loop for HTTP attempt number `attempt`
\* (0-based) that met response `resp` of the backend that holds `phone`
retryWithBackoff(attempt, resp, phone) ==
    CASE resp = "ok"      -> [done |-> TRUE, value |-> phone]
      [] resp = "noPhone" -> [done |-> TRUE, value |-> None]
      [] resp = "4xx"     -> [done |-> TRUE, value |-> None]
      [] resp = "other"   -> [done |-> TRUE, value |-> None]
      [] OTHER            -> \* any other AxiosError: 5xx, network error or
                             \* timeout, a status axios rejects below 400
            IF attempt < maxRetries - 1
            THEN [done |-> FALSE, value |-> None]
            ELSE [done |-> TRUE, value |-> None]

\* what one HTTP attempt can meet: a 2xx response with or without a phone; a
\* status axios rejects (validateStatus): 4xx, 5xx, or one below 400 such as
\* 304; no response (network error, timeout); a failure that is no AxiosError
Responses ==
    { "ok", "noPhone", "4xx", "5xx", "3xx", "network", "other" }

\* an execute that bills only the phones it finds
PhoneProvider_execute_perPhone(config, phone) ==
    [phone |-> phone, provider |-> config.name,
     cost |-> IF phone = None THEN 0 ELSE config.costPerRequest]

\* PhoneProvider.execute once its lookup returned `phone` (timestamp left out)
PhoneProvider_execute(config, phone) ==
    [phone |-> phone, provider |-> config.name, cost |-> config.costPerRequest]

NoneResult ==
    [phone |-> None, provider |-> "None", cost |-> 0]

\* ------------------------------------------------------ activities
\* The activities build a new ProviderRegistry, hence new limiters with a
\* full bucket and no active request, on every run: the single execute of
\* such a limiter is admitted at once, so the lookup starts with the call.
Idle ==
    [name |-> "none", status |-> "idle", providers |-> << >>, idx |-> 0,
     attempt |-> 0, result |-> NoneResult]

\* an activity that walks on after a provider found a phone
afterExecute_noStop(act, result) ==
    IF act.idx < Len(act.providers)
    THEN [act EXCEPT !.idx = act.idx + 1, !.attempt = 0]
    ELSE [act EXCEPT !.status = "returned", !.result = result]

\* what lookupOrion / lookupSecondary do with the result of provider.execute
afterExecute(act, result) ==
    IF result.phone # None
    THEN [act EXCEPT !.status = "returned", !.result = result]
    ELSE IF act.idx < Len(act.providers)
         THEN [act EXCEPT !.idx = act.idx + 1, !.attempt = 0]
         ELSE [act EXCEPT !.status = "returned", !.result = NoneResult]

\* lookupOrion(params) up to its first await
lookupOrion ==
    LET providers == SelectSeq(getProviders(configs), IsOrion)
    IN  IF Len(providers) = 0
        THEN [Idle EXCEPT !.name = "lookupOrion", !.status = "returned"]
        ELSE [Idle EXCEPT !.name = "lookupOrion", !.status = "running",
                          !.providers = << providers[1] >>, !.idx = 1]

\* lookupSecondary(params) up to its first await
lookupSecondary ==
    LET providers == SelectSeq(getProviders(configs), IsNotOrion)
    IN  IF Len(providers) = 0
        THEN [Idle EXCEPT !.name = "lookupSecondary", !.status = "returned"]
        ELSE [Idle EXCEPT !.name = "lookupSecondary", !.status = "running",
                          !.providers = providers, !.idx = 1]

\* provider.execute(params) is called when the activity reaches a provider
Called(act) ==
    IF act.status = "running"
    THEN << act.providers[act.idx].name >>
    ELSE << >>

Schedule(act) ==
    /\ activity' = act
    /\ callLog' = callLog \o Called(act)

\* the workflow starts and schedules lookupOrion on queue phone-verify-1
StartWorkflow ==
    /\ wfPc = "init"
    /\ wfPc' = "orion"
    /\ Schedule(lookupOrion)
    /\ UNCHANGED << configs, httpCalls, httpLog, execResult, failedSteps,
                    wfResult >>

\* one HTTP attempt of the provider call in progress gets its response
HttpAttempt(resp) ==
    /\ activity.status = "running"
    /\ LET config == activity.providers[activity.idx]
           step   == retryWithBackoff(activity.attempt, resp, PhoneOf(config.name))
       IN  /\ httpCalls' = [httpCalls EXCEPT ![config.name] = @ + 1]
           /\ httpLog' = [httpLog EXCEPT ![config.name] = Append(@, resp)]
           /\ IF step.done
              THEN LET result == PhoneProvider_execute(config, step.value)
                       act    == afterExecute(activity, result)
                   IN  /\ execResult' = [execResult EXCEPT ![config.name] = result]
                       /\ activity' = act
                       /\ callLog' = IF act.idx # activity.idx
                                     THEN callLog \o Called(act)
                                     ELSE callLog
              ELSE /\ activity' = [activity EXCEPT !.attempt = activity.attempt + 1]
                   /\ UNCHANGED << execResult, callLog >>
    /\ UNCHANGED << configs, wfPc, failedSteps, wfResult >>

\* phoneLookupWorkflow resumes with the value the step returned
StepCompletes ==
    /\ activity.status = "returned"
    /\ IF wfPc = "orion" /\ activity.result.phone = None
       THEN /\ wfPc' = "secondary"
            /\ Schedule(lookupSecondary)
            /\ UNCHANGED wfResult
       ELSE /\ wfPc' = "done"
            /\ wfResult' = activity.result
            /\ activity' = Idle
            /\ UNCHANGED callLog
    /\ UNCHANGED << configs, httpCalls, httpLog, execResult, failedSteps >>

\* the engine reports the step as failed (start-to-close timeout of 30 s,
\* lost worker) while a provider call is in progress: the catch blocks
StepFails ==
    /\ activity.status = "running"
    /\ failedSteps' = failedSteps \cup {activity.name}
    /\ IF wfPc = "orion"
       THEN /\ wfPc' = "secondary"
            /\ Schedule(lookupSecondary)
            /\ UNCHANGED wfResult
       ELSE /\ wfPc' = "done"
            /\ wfResult' = [phone |-> None]
            /\ activity' = Idle
            /\ UNCHANGED callLog
    /\ UNCHANGED << configs, httpCalls, httpLog, execResult >>

NotCalled ==
    [phone |-> "pending"]

LookupIdle ==
    /\ wfPc = "init"
    /\ activity = Idle
    /\ callLog = << >>
    /\ httpCalls = [n \in { ProviderNames[i] : i \in 1..3 } |-> 0]
    /\ httpLog = [n \in { ProviderNames[i] : i \in 1..3 } |-> << >>]
    /\ execResult = [n \in { ProviderNames[i] : i \in 1..3 } |-> NotCalled]
    /\ failedSteps = {}
    /\ wfResult = NotCalled

\* a limiter nobody calls
LimiterIdle ==
    constructor(1, TimeWindowArg, 1)

\* ------------------------------------------------------ ProviderRegistry
KnownProviders ==
    { ProviderNames[i] : i \in 1..3 }

\* the values PROVIDER_CONFIGS can be given: lists of configs of unique name,
\* over the three providers and a name the constructor's switch does not know
ConfigLists ==
    LET records == { [PROVIDER_CONFIGS(<< e, e, e >>)[1]
                         EXCEPT !.name = n, !.priority = p] :
                       n \in KnownProviders \cup { "Vega Search" },
                       p \in 1..MaxPriority, e \in BOOLEAN }
    IN  UNION { { cs \in [1..n -> records] :
                    \A i, j \in 1..n : i # j => cs[i].name # cs[j].name } :
                n \in 0..MaxConfigs }

\* new ProviderRegistry(): filter, sort, then one provider instance per config;
\* the switch throws on a name it does not know
ProviderRegistry(cs) ==
    LET sorted == getProviders(cs)
    IN  IF \E i \in DOMAIN sorted : sorted[i].name \notin KnownProviders
        THEN [status |-> "threw", providers |-> << >>]
        ELSE [status |-> "built", providers |-> sorted]

\* this.providers.find(p => p.getConfig().name === name)
getProvider(providers, name) ==
    IF \E i \in DOMAIN providers : providers[i].name = name
    THEN providers[CHOOSE i \in DOMAIN providers :
                      /\ providers[i].name = name
                      /\ \A j \in 1..(i - 1) : providers[j].name # name]
    ELSE [name |-> "undefined"]

\* ----------------------------------------- fan-out over the Temporal workers
\* maxConcurrentActivityTaskExecutions of the workers on phone-verify-1 and -2
OrionSlots ==
    3
SecondarySlots ==
    10

\* the limiter a PhoneProvider constructor creates for its config
newQueuedRateLimiter(config) ==
    [maxTokens |-> config.rateLimit, tokens |-> config.rateLimit,
     maxConcurrent |-> config.maxConcurrent, activeRequests |-> 0]

\* canProcessRequest() of limiter lim (no time has passed since it was built)
admitsNow(lim) ==
    lim.activeRequests < lim.maxConcurrent /\ lim.tokens >= 1

\* consumeToken(); activeRequests++
admitOn(lim) ==
    [lim EXCEPT !.tokens = @ - 1, !.activeRequests = @ + 1]

\* lookups whose provider.execute call to provider `name` is in flight
InFlight(name) ==
    { l \in 1..MaxLookups :
        /\ fanout[l].act.status = "running"
        /\ fanout[l].act.providers[fanout[l].act.idx].name = name }

\* provider.execute(params) of the provider activity `act` stands at, on the
\* limiters `lims` of the activity's registry
BeginCall(l, pc, act, lims) ==
    IF act.status = "running"
    THEN LET name == act.providers[act.idx].name
         IN  /\ admitsNow(lims[name])
             /\ fanout' = [fanout EXCEPT ![l] =
                    [pc |-> pc, queued |-> FALSE, act |-> act,
                     limiters |-> [lims EXCEPT ![name] = admitOn(@)]]]
             /\ provAdmits' = [provAdmits EXCEPT ![name] = Append(@, fanNow)]
    ELSE /\ fanout' = [fanout EXCEPT ![l] =
                [pc |-> pc, queued |-> FALSE, act |-> act, limiters |-> lims]]
         /\ UNCHANGED provAdmits

\* ------------------------------------------------------------ JobTracker
Operations ==
    { "verify-email", "phone-lookup" }

\* completedAt of a job that has none
NoDate ==
    -1

\* the delay of the setTimeout in cleanup, ms
cleanupDelay ==
    60000

\* `job_${Date.now()}_${Math.random().toString(36).substr(2, 9)}`
newJobId(at, random) ==
    << at, random >>

\* this.jobs.set(jobId, job)
MapSet(map, id, job) ==
    [k \in DOMAIN map \cup {id} |-> IF k = id THEN job ELSE map[k]]

createJob(map, id, type, leadCount, at) ==
    MapSet(map, id, [id |-> id, type |-> type, operations |-> {},
                     totalLeads |-> leadCount, processedLeads |-> 0,
                     startedAt |-> at, completedAt |-> NoDate])

createEnrichmentJob(map, id, leadCount, ops, at) ==
    MapSet(map, id, [id |-> id, type |-> "enrichment", operations |-> ops,
                     totalLeads |-> leadCount, processedLeads |-> 0,
                     startedAt |-> at, completedAt |-> NoDate])

incrementProgress(map, id, at) ==
    IF id \notin DOMAIN map
    THEN map
    ELSE LET job  == map[id]
             done == job.processedLeads + 1
         IN  [map EXCEPT ![id] =
                [job EXCEPT !.processedLeads = done,
                            !.completedAt = IF done >= job.totalLeads
                                            THEN at
                                            ELSE job.completedAt]]

getJob(map, id) ==
    IF id \in DOMAIN map THEN map[id] ELSE [id |-> "undefined"]

isComplete(map, id) ==
    IF id \in DOMAIN map
    THEN map[id].processedLeads >= map[id].totalLeads
    ELSE FALSE

\* a cleanup that sets its timer without looking the job up
cleanup_unguarded(map, timerSet, id, at) ==
    timerSet \cup { [id |-> id, due |-> at + cleanupDelay] }

\* cleanup(jobId): a timer that deletes the job, if the job exists now
cleanup(map, timerSet, id, at) ==
    IF id \in DOMAIN map
    THEN timerSet \cup { [id |-> id, due |-> at + cleanupDelay] }
    ELSE timerSet

\* ------------------------------------------------------- batch enrichment
\* Two orchestrators serve enrichLeads in this repository: the
\* processEnrichment that runs every cell in the API process ("inProcess"),
\* and the processEnrichment that starts batchEnrichmentWorkflow, whose cells
\* end in the activity updateLeadAndNotify ("batchWorkflow").

\* lead rows: emailVerified is null, true or false; phoneNumber null or set
LeadLists ==
    UNION { [1..n -> [emailVerified : { None, "true", "false" },
                      phoneNumber : { None, "+1-900" }]] : n \in 1..MaxLeads }

Cells ==
    (1..MaxLeads) \X Operations

BatchCells ==
    { c \in Cells : c[1] \in DOMAIN leads /\ c[2] \in operations }

\* the values a cell's workflow returns: a boolean; the result of the provider
\* that found a phone, or one of the two results without a phone
WorkflowValues(operation) ==
    IF operation = "verify-email"
    THEN { "true", "false" }
    ELSE { PhoneProvider_execute(configs[1], PhoneOf(configs[1].name)),
           NoneResult, [phone |-> None] }

\* the test that skips a cell: lead.emailVerified !== null, lead.phoneNumber
AlreadyKnown(lead, operation) ==
    IF operation = "verify-email"
    THEN lead.emailVerified # None
    ELSE lead.phoneNumber # None

\* payload of the completion event emitted for a skipped cell
SyntheticData(lead, operation) ==
    IF operation = "verify-email"
    THEN [emailVerified |-> lead.emailVerified]
    ELSE [phone |-> lead.phoneNumber, provider |-> "Existing", cost |-> 0]

\* let completedOperations = 0, as it stands now: processEnrichment adds one
\* in the payload of every operation-complete it emits
completedOperations ==
    Cardinality(UNION { { << c, i >> : i \in { j \in DOMAIN events[c] :
                              events[c][j].event = "operation-complete" } } :
                        c \in Cells })

\* the completion event for the value a cell's workflow returned;
\* processEnrichment adds progress: { completed: ++completedOperations,
\* total: leads.length * operations.length }, updateLeadAndNotify has no
\* progress in its payload
OperationComplete(operation, value) ==
    LET payload == [event |-> "operation-complete",
                    data |-> IF operation = "verify-email"
                             THEN [emailVerified |-> value]
                             ELSE value]
    IN  IF orchestrator = "inProcess"
        THEN [event |-> payload.event, data |-> payload.data,
              progress |-> [completed |-> completedOperations + 1,
                            total |-> Len(leads) * Cardinality(operations)]]
        ELSE payload

\* jobTracker.getJob(jobId)?.processedLeads || 0
totalProcessed(map, id) ==
    IF id \in DOMAIN map THEN map[id].processedLeads ELSE 0

\* a cell at position pc: the value its workflow returned while it is
\* written, and whether its workflow or a write of it has raised
CellAt(pc, value, raised) ==
    [pc |-> pc, value |-> value, raised |-> raised]

\* a caller that writes whatever the workflow returned
AfterWorkflow_alwaysWrite(c, value) ==
    /\ cell' = [cell EXCEPT ![c] = CellAt("persisting", value, FALSE)]
    /\ dbWrites' = [dbWrites EXCEPT ![c] = @ + 1]
    /\ UNCHANGED events

\* what follows the value of a cell's workflow: the write if there is one to
\* make (always for verify-email, for a phone that was found), else the
\* completion event
AfterWorkflow(c, value) ==
    IF c[2] = "verify-email" \/ value.phone # None
    THEN /\ cell' = [cell EXCEPT ![c] = CellAt("persisting", value, FALSE)]
         /\ dbWrites' = [dbWrites EXCEPT ![c] = @ + 1]
         /\ UNCHANGED events
    ELSE /\ cell' = [cell EXCEPT ![c] = CellAt("done", "none", FALSE)]
         /\ events' = [events EXCEPT ![c] = Append(@, OperationComplete(c[2], value))]
         /\ UNCHANGED dbWrites

\* the components a specification does not exercise, as the process holds
\* them before any request
BatchSideIdle(which) ==
    /\ registry = [status |-> "unbuilt", providers |-> << >>]
    /\ lookedUp = [name |-> "none", result |-> [name |-> "undefined"]]
    /\ fanout = [l \in 1..MaxLookups |->
                    [pc |-> "init", queued |-> FALSE, act |-> Idle, limiters |-> << >>]]
    /\ fanNow = 0
    /\ provAdmits = [n \in KnownProviders |-> << >>]
    /\ jobs = << >>
    /\ returnedIds = << >>
    /\ trNow = 0
    /\ trTicks = 0
    /\ cleanupTimers = {}
    /\ observed = [op |-> "none"]
    /\ orchestrator = which
    /\ leads = << >>
    /\ operations = {}
    /\ jobId = << >>
    /\ batchPc = "idle"
    /\ cell = [c \in Cells |-> CellAt("none", "none", FALSE)]
    /\ events = [c \in Cells |-> << >>]
    /\ jobEvents = << >>
    /\ extCalls = [c \in Cells |-> 0]
    /\ dbWrites = [c \in Cells |-> 0]
    /\ progressed = {}
    /\ dispatched = {}
    /\ io = None
    /\ rooms = [s \in 1..MaxSockets |-> {}]
    /\ inbox = [s \in 1..MaxSockets |-> {}]
    /\ busLog = << >>

\* ------------------------------------------------------------ specifications
ExecuteAsync ==
    Execute("async", MaxRequests) /\ UNCHANGED << lookupVars, batchSideVars >>
ExecuteThrowing ==
    Execute("throws", MaxRequests) /\ UNCHANGED << lookupVars, batchSideVars >>
CompleteFulfilled ==
    (\E request \in running : Complete(request, "fulfilled")) /\ UNCHANGED << lookupVars, batchSideVars >>
CompleteRejected ==
    (\E request \in running : Complete(request, "rejected")) /\ UNCHANGED << lookupVars, batchSideVars >>
FinallyRuns ==
    (\E request \in finishing : Finally(request)) /\ UNCHANGED << lookupVars, batchSideVars >>
TimerFires ==
    (\E due \in BagToSet(timers) : TimerFire(due)) /\ UNCHANGED << lookupVars, batchSideVars >>
ClockTick ==
    Tick /\ UNCHANGED << lookupVars, batchSideVars >>
BurstExecute ==
    Execute("async", BurstRequests) /\ UNCHANGED << lookupVars, batchSideVars >>

\* the caller of execute is cancelled while its waiter is queued (the engine
\* ends the activity that awaits provider.execute).  execute takes no signal
\* and the limiter has no operation that removes a waiter: no field changes.
CallerCancelled ==
    /\ Cardinality(cancelled) < MaxCancelled
    /\ \E k \in DOMAIN queue : cancelled' = cancelled \cup { queue[k].execute.id }
    /\ cancelled' # cancelled
    /\ UNCHANGED << maxTokens, timeWindow, maxConcurrent, tokens, lastRefill,
                    queue, activeRequests, now, timers, running, finishing,
                    nextId, fnKind, calls, fnResult, promise, enqAt, admitLog,
                    lookupVars, batchSideVars >>

vars ==
    << limiterVars, lookupVars, batchSideVars >>


Init ==
    /\ \E m \in 1..MaxTokensArg, c \in 1..MaxConcurrentArg :
          constructor(m, TimeWindowArg, c)
    /\ configs = PROVIDER_CONFIGS(<< TRUE, TRUE, TRUE >>)
    /\ LookupIdle
    /\ BatchSideIdle("inProcess")

Next ==
    \/ ExecuteAsync
    \/ ExecuteThrowing
    \/ CompleteFulfilled
    \/ CompleteRejected
    \/ FinallyRuns
    \/ TimerFires
    \/ ClockTick
    \/ CallerCancelled

Spec ==
    Init /\ [][Next]_vars

\* A burst on a fresh limiter whose concurrency cap cannot bind: the cap is
\* the number of callables, every callable is async and fulfils.
BurstInit ==
    /\ \E m \in 2..MaxTokensArg : constructor(m, TimeWindowArg, BurstRequests)
    /\ configs = PROVIDER_CONFIGS(<< TRUE, TRUE, TRUE >>)
    /\ LookupIdle
    /\ BatchSideIdle("inProcess")

BurstNext ==
    \/ BurstExecute
    \/ CompleteFulfilled
    \/ FinallyRuns
    \/ TimerFires
    \/ ClockTick

BurstSpec ==
    BurstInit /\ [][BurstNext]_vars

\* One run of phoneLookupWorkflow over every choice of enabled providers
\* and every response of the backends.
HttpResponse ==
    (\E resp \in Responses : HttpAttempt(resp)) /\ UNCHANGED << limiterVars, batchSideVars >>
WorkflowStarts ==
    StartWorkflow /\ UNCHANGED << limiterVars, batchSideVars >>
StepReturns ==
    StepCompletes /\ UNCHANGED << limiterVars, batchSideVars >>
StepFailure ==
    StepFails /\ UNCHANGED << limiterVars, batchSideVars >>

LookupInit ==
    /\ LimiterIdle
    /\ \E enabled \in [1..3 -> BOOLEAN] : configs = PROVIDER_CONFIGS(enabled)
    /\ LookupIdle
    /\ BatchSideIdle("inProcess")

LookupNext ==
    \/ WorkflowStarts
    \/ HttpResponse
    \/ StepReturns
    \/ StepFailure

LookupSpec ==
    LookupInit /\ [][LookupNext]_vars

\* A registry built from every list PROVIDER_CONFIGS can hold.
RegistryBuilt ==
    /\ registry.status = "unbuilt"
    /\ registry' = ProviderRegistry(configs)
    /\ UNCHANGED << lookedUp, limiterVars, lookupVars, fanoutVars, trackerVars,
                    enrichVars,
                    outboundVars >>

ProviderLookedUp ==
    /\ registry.status = "built"
    /\ \E name \in KnownProviders \cup { "Vega Search" } :
          lookedUp' = [name |-> name,
                       result |-> getProvider(registry.providers, name)]
    /\ UNCHANGED << registry, limiterVars, lookupVars, fanoutVars, trackerVars,
                    enrichVars,
                    outboundVars >>

RegistryInit ==
    /\ LimiterIdle
    /\ configs \in ConfigLists
    /\ LookupIdle
    /\ BatchSideIdle("inProcess")

RegistryNext ==
    \/ RegistryBuilt
    \/ ProviderLookedUp

RegistrySpec ==
    RegistryInit /\ [][RegistryNext]_vars

\* Several phoneLookupWorkflow runs at once, as a batch starts them, over the
\* workers of phone-verify-1 and phone-verify-2.

\* a phoneLookupWorkflow starts: lookupOrion is scheduled on phone-verify-1
LookupStarts ==
    /\ \E l \in 1..MaxLookups :
          /\ fanout[l].pc = "init"
          /\ fanout' = [fanout EXCEPT ![l].pc = "orion", ![l].queued = TRUE]
    /\ UNCHANGED << fanNow, provAdmits, limiterVars, lookupVars, registryVars,
                    trackerVars, enrichVars,
                    outboundVars >>

\* a worker with a free slot runs a scheduled activity: the activity builds
\* its own registry, hence its own limiters, and calls its first provider
ActivityStarts ==
    /\ \E l \in 1..MaxLookups :
          LET pc        == fanout[l].pc
              executing == { k \in 1..MaxLookups :
                               /\ fanout[k].pc = pc
                               /\ ~fanout[k].queued
                               /\ fanout[k].act.status = "running" }
              providers == getProviders(configs)
          IN  /\ fanout[l].queued
              /\ Cardinality(executing) <
                    (IF pc = "orion" THEN OrionSlots ELSE SecondarySlots)
              /\ BeginCall(l, pc,
                    IF pc = "orion" THEN lookupOrion ELSE lookupSecondary,
                    [n \in { providers[i].name : i \in DOMAIN providers } |->
                        newQueuedRateLimiter(
                            CHOOSE c \in { providers[i] : i \in DOMAIN providers } :
                                c.name = n)])
    /\ UNCHANGED << fanNow, limiterVars, lookupVars, registryVars, trackerVars,
                    enrichVars,
                    outboundVars >>

\* a provider call returns, with a phone or without: the limiter's .finally
\* releases the slot, and the activity returns or calls its next provider
ProviderResponds ==
    /\ \E l \in 1..MaxLookups, found \in BOOLEAN :
          /\ fanout[l].act.status = "running"
          /\ LET act    == fanout[l].act
                 config == act.providers[act.idx]
                 result == PhoneProvider_execute(config,
                              IF found THEN PhoneOf(config.name) ELSE None)
                 lims   == [fanout[l].limiters EXCEPT
                              ![config.name].activeRequests = @ - 1]
             IN  BeginCall(l, fanout[l].pc, afterExecute(act, result), lims)
    /\ UNCHANGED << fanNow, limiterVars, lookupVars, registryVars, trackerVars,
                    enrichVars,
                    outboundVars >>

\* a retry that goes back through rateLimiter.execute
HttpAttemptRetried_throughLimiter ==
    /\ \E l \in 1..Min(MaxRetrying, MaxLookups), resp \in Responses :
          /\ fanout[l].act.status = "running"
          /\ LET act  == fanout[l].act
                 name == act.providers[act.idx].name
             IN  /\ ~retryWithBackoff(act.attempt, resp, PhoneOf(name)).done
                 /\ fanout' = [fanout EXCEPT ![l].act.attempt = @ + 1,
                                             ![l].limiters[name] = admitOn(@)]
                 /\ provAdmits' = [provAdmits EXCEPT ![name] = Append(@, fanNow)]
    /\ UNCHANGED << fanNow, limiterVars, lookupVars, registryVars, trackerVars,
                    enrichVars, outboundVars >>

\* an HTTP attempt of a provider call in flight fails in a way retryWithBackoff
\* retries: the loop inside lookup(), hence inside the callable the limiter
\* admitted, sleeps and goes round again
HttpAttemptRetried ==
    /\ \E l \in 1..Min(MaxRetrying, MaxLookups), resp \in Responses :
          /\ fanout[l].act.status = "running"
          /\ LET act  == fanout[l].act
                 name == act.providers[act.idx].name
             IN  /\ ~retryWithBackoff(act.attempt, resp, PhoneOf(name)).done
                 /\ fanout' = [fanout EXCEPT ![l].act.attempt = @ + 1]
    /\ UNCHANGED << fanNow, provAdmits, limiterVars, lookupVars, registryVars,
                    trackerVars, enrichVars, outboundVars >>

\* a workflow resumes with the value its activity returned
ActivityReturns ==
    /\ \E l \in 1..MaxLookups :
          /\ ~fanout[l].queued
          /\ fanout[l].act.status = "returned"
          /\ fanout[l].pc \in { "orion", "secondary" }
          /\ IF fanout[l].pc = "orion" /\ fanout[l].act.result.phone = None
             THEN fanout' = [fanout EXCEPT ![l] =
                      [pc |-> "secondary", queued |-> TRUE, act |-> Idle,
                       limiters |-> << >>]]
             ELSE fanout' = [fanout EXCEPT ![l].pc = "done", ![l].limiters = << >>]
    /\ UNCHANGED << fanNow, provAdmits, limiterVars, lookupVars, registryVars,
                    trackerVars, enrichVars,
                    outboundVars >>

WorkerClockTick ==
    /\ fanNow < MaxFanTime
    /\ fanNow' = fanNow + 1
    /\ UNCHANGED << fanout, provAdmits, limiterVars, lookupVars, registryVars,
                    trackerVars, enrichVars,
                    outboundVars >>

FanoutInit ==
    /\ LimiterIdle
    /\ configs = PROVIDER_CONFIGS(<< TRUE, TRUE, TRUE >>)
    /\ LookupIdle
    /\ BatchSideIdle("inProcess")

FanoutNext ==
    \/ LookupStarts
    \/ ActivityStarts
    \/ ProviderResponds
    \/ HttpAttemptRetried
    \/ ActivityReturns
    \/ WorkerClockTick

FanoutSpec ==
    FanoutInit /\ [][FanoutNext]_vars

\* Every sequence of JobTracker operations, on the ids the create calls
\* returned.  `observed` holds what a read returned until the next operation.
JobCreated ==
    /\ Len(returnedIds) < MaxJobs
    /\ \E type \in { "email-verification", "phone-lookup" },
          leadCount \in 0..MaxLeadCount, random \in 1..MaxRandom :
          /\ jobs' = createJob(jobs, newJobId(trNow, random), type, leadCount, trNow)
          /\ returnedIds' = Append(returnedIds, newJobId(trNow, random))
    /\ observed' = [op |-> "none"]
    /\ UNCHANGED << trNow, trTicks, cleanupTimers, limiterVars, lookupVars,
                    registryVars, fanoutVars, enrichVars,
                    outboundVars >>

EnrichmentJobCreated ==
    /\ Len(returnedIds) < MaxJobs
    /\ \E leadCount \in 0..MaxLeadCount, random \in 1..MaxRandom :
          /\ jobs' = createEnrichmentJob(jobs, newJobId(trNow, random), leadCount,
                                         Operations, trNow)
          /\ returnedIds' = Append(returnedIds, newJobId(trNow, random))
    /\ observed' = [op |-> "none"]
    /\ UNCHANGED << trNow, trTicks, cleanupTimers, limiterVars, lookupVars,
                    registryVars, fanoutVars, enrichVars,
                    outboundVars >>

\* incrementProgress(jobId).  getJob returned the Job object the map holds,
\* not a copy: a caller that still holds what getJob returned for this job
\* holds the object job.processedLeads++ is applied to.
ProgressIncremented ==
    /\ \E i \in DOMAIN returnedIds :
          LET id == returnedIds[i]
          IN  /\ id \in DOMAIN jobs => jobs[id].processedLeads < MaxIncrements
              /\ jobs' = incrementProgress(jobs, id, trNow)
              /\ observed' = IF /\ observed.op = "getJob"
                                /\ id \in DOMAIN jobs
                                /\ observed.value = jobs[id]
                             THEN [op |-> "getJob", value |-> jobs'[id]]
                             ELSE [op |-> "none"]
    /\ UNCHANGED << returnedIds, trNow, trTicks, cleanupTimers, limiterVars,
                    lookupVars, registryVars, fanoutVars, enrichVars,
                    outboundVars >>

JobRead ==
    /\ \E i \in DOMAIN returnedIds :
          observed' = [op |-> "getJob", value |-> getJob(jobs, returnedIds[i])]
    /\ UNCHANGED << jobs, returnedIds, trNow, trTicks, cleanupTimers, limiterVars,
                    lookupVars, registryVars, fanoutVars, enrichVars,
                    outboundVars >>

CompletionRead ==
    /\ \E i \in DOMAIN returnedIds :
          observed' = [op |-> "isComplete",
                       value |-> isComplete(jobs, returnedIds[i])]
    /\ UNCHANGED << jobs, returnedIds, trNow, trTicks, cleanupTimers, limiterVars,
                    lookupVars, registryVars, fanoutVars, enrichVars,
                    outboundVars >>

CleanupScheduled ==
    /\ \E i \in DOMAIN returnedIds :
          cleanupTimers' = cleanup(jobs, cleanupTimers, returnedIds[i], trNow)
    /\ observed' = [op |-> "none"]
    /\ UNCHANGED << jobs, returnedIds, trNow, trTicks, limiterVars, lookupVars,
                    registryVars, fanoutVars, enrichVars,
                    outboundVars >>

\* the callback of a cleanup timer runs: this.jobs.delete(jobId)
CleanupFires ==
    /\ \E timer \in cleanupTimers :
          /\ trNow >= timer.due
          /\ jobs' = [k \in DOMAIN jobs \ { timer.id } |-> jobs[k]]
          /\ cleanupTimers' = cleanupTimers \ { timer }
    /\ observed' = [op |-> "none"]
    /\ UNCHANGED << returnedIds, trNow, trTicks, limiterVars, lookupVars,
                    registryVars, fanoutVars, enrichVars,
                    outboundVars >>

\* the clock of the API process advances; the instants followed are those
\* one cleanup delay apart
ApiClockTick ==
    /\ trTicks < MaxTicks
    /\ trTicks' = trTicks + 1
    /\ trNow' = trNow + cleanupDelay
    /\ observed' = [op |-> "none"]
    /\ UNCHANGED << jobs, returnedIds, cleanupTimers, limiterVars, lookupVars,
                    registryVars, fanoutVars, enrichVars,
                    outboundVars >>

TrackerInit ==
    /\ LimiterIdle
    /\ configs = PROVIDER_CONFIGS(<< TRUE, TRUE, TRUE >>)
    /\ LookupIdle
    /\ BatchSideIdle("inProcess")

TrackerNext ==
    \/ JobCreated
    \/ EnrichmentJobCreated
    \/ ProgressIncremented
    \/ JobRead
    \/ CompletionRead
    \/ CleanupScheduled
    \/ CleanupFires
    \/ ApiClockTick

TrackerSpec ==
    TrackerInit /\ [][TrackerNext]_vars

\* One enrichLeads batch, under either orchestrator, over every choice of
\* lead rows, operations and outcomes of the cells.

\* Mutation.enrichLeads: the job is created, processEnrichment is called and
\* suspends in Connection.connect
BatchRequested ==
    /\ batchPc = "idle"
    /\ Len(returnedIds) < MaxJobs
    /\ \E rows \in LeadLists, ops \in (SUBSET Operations) \ { {} },
          random \in 1..MaxRandom :
          /\ leads' = rows
          /\ operations' = ops
          /\ jobs' = createEnrichmentJob(jobs, newJobId(trNow, random), Len(rows),
                                         ops, trNow)
          /\ returnedIds' = Append(returnedIds, newJobId(trNow, random))
          /\ jobId' = newJobId(trNow, random)
          /\ cell' = [c \in Cells |->
                        IF c[1] \in DOMAIN rows /\ c[2] \in ops
                        THEN CellAt("init", "none", FALSE)
                        ELSE CellAt("none", "none", FALSE)]
    /\ batchPc' = "connecting"
    /\ UNCHANGED << orchestrator, events, jobEvents, extCalls, dbWrites,
                    progressed, trNow, trTicks, cleanupTimers, observed,
                    limiterVars, lookupVars, registryVars, fanoutVars,
                    outboundVars >>

\* Connection.connect rejects: processEnrichment ends with that rejection
ConnectionFails ==
    /\ batchPc = "connecting"
    /\ batchPc' = "aborted"
    /\ UNCHANGED << orchestrator, leads, operations, jobId, cell, events,
                    jobEvents, extCalls, dbWrites, progressed, trackerVars,
                    limiterVars, lookupVars, registryVars, fanoutVars,
                    outboundVars >>

\* processEnrichment in the API process, from the connection to the first
\* await of every cell: a skipped cell emits its synthetic completion, every
\* other cell starts its workflow
CellsDispatched ==
    /\ orchestrator = "inProcess"
    /\ batchPc = "connecting"
    /\ batchPc' = "running"
    /\ cell' = [c \in Cells |->
                  IF c \notin BatchCells THEN cell[c]
                  ELSE IF AlreadyKnown(leads[c[1]], c[2])
                       THEN CellAt("done", "none", FALSE)
                       ELSE CellAt("calling", "none", FALSE)]
    /\ events' = [c \in Cells |->
                  IF c \in BatchCells /\ AlreadyKnown(leads[c[1]], c[2])
                  THEN << [event |-> "operation-complete",
                           data |-> SyntheticData(leads[c[1]], c[2]),
                           \* the cells run in the order of leads.map and
                           \* operations.map (verify-email taken first)
                           progress |->
                             [completed |-> Cardinality({ d \in BatchCells :
                                 /\ AlreadyKnown(leads[d[1]], d[2])
                                 /\ \/ d[1] < c[1]
                                    \/ d[1] = c[1] /\ d[2] = "verify-email"
                                    \/ d = c }),
                              total |-> Len(leads) * Cardinality(operations)]] >>
                  ELSE events[c]]
    /\ extCalls' = [c \in Cells |->
                  IF c \in BatchCells /\ ~AlreadyKnown(leads[c[1]], c[2])
                  THEN extCalls[c] + 1 ELSE extCalls[c]]
    /\ UNCHANGED << orchestrator, leads, operations, jobId, jobEvents, dbWrites,
                    progressed, trackerVars, limiterVars, lookupVars,
                    registryVars, fanoutVars,
                    outboundVars >>

\* processEnrichment starts batchEnrichmentWorkflow and returns
BatchWorkflowStarted ==
    /\ orchestrator = "batchWorkflow"
    /\ batchPc = "connecting"
    /\ batchPc' = "started"
    /\ UNCHANGED << orchestrator, leads, operations, jobId, cell, events,
                    jobEvents, extCalls, dbWrites, progressed, trackerVars,
                    limiterVars, lookupVars, registryVars, fanoutVars,
                    outboundVars >>

\* batchEnrichmentWorkflow up to Promise.all: a child workflow is started for
\* every cell whose field is not known, nothing is done for the others
ChildrenDispatched ==
    /\ batchPc = "started"
    /\ batchPc' = "running"
    /\ cell' = [c \in Cells |->
                  IF c \notin BatchCells THEN cell[c]
                  ELSE IF AlreadyKnown(leads[c[1]], c[2])
                       THEN CellAt("done", "none", FALSE)
                       ELSE CellAt("calling", "none", FALSE)]
    /\ extCalls' = [c \in Cells |->
                  IF c \in BatchCells /\ ~AlreadyKnown(leads[c[1]], c[2])
                  THEN extCalls[c] + 1 ELSE extCalls[c]]
    /\ UNCHANGED << orchestrator, leads, operations, jobId, events, jobEvents,
                    dbWrites, progressed, trackerVars, limiterVars, lookupVars,
                    registryVars, fanoutVars,
                    outboundVars >>

\* the workflow of a cell returns a value to its caller
CellWorkflowReturns ==
    /\ batchPc = "running"
    /\ \E c \in BatchCells :
          /\ cell[c].pc = "calling"
          /\ \E value \in WorkflowValues(c[2]) : AfterWorkflow(c, value)
    /\ UNCHANGED << orchestrator, leads, operations, jobId, batchPc, jobEvents,
                    extCalls, progressed, trackerVars, limiterVars, lookupVars,
                    registryVars, fanoutVars,
                    outboundVars >>

\* the workflow of a cell fails.  In the API process the catch block emits
\* operation-error.  In batchEnrichmentWorkflow the rejection leaves
\* Promise.all: the workflow fails and the engine ends what it left running.
CellWorkflowRaises ==
    /\ batchPc = "running"
    /\ \E c \in BatchCells :
          /\ cell[c].pc = "calling"
          /\ IF orchestrator = "inProcess"
             THEN /\ cell' = [cell EXCEPT ![c] = CellAt("failed", "none", TRUE)]
                  /\ events' = [events EXCEPT ![c] =
                                   Append(@, [event |-> "operation-error"])]
                  /\ UNCHANGED batchPc
             ELSE /\ cell' = [d \in Cells |->
                                IF d = c THEN CellAt("failed", "none", TRUE)
                                ELSE IF cell[d].pc \in { "calling", "persisting" }
                                     THEN CellAt("cancelled", "none", cell[d].raised)
                                     ELSE cell[d]]
                  /\ batchPc' = "failed"
                  /\ UNCHANGED events
    /\ UNCHANGED << orchestrator, leads, operations, jobId, jobEvents, extCalls,
                    dbWrites, progressed, trackerVars, limiterVars, lookupVars,
                    registryVars, fanoutVars,
                    outboundVars >>

\* prisma.lead.update of a cell succeeds: the completion event is emitted
CellPersisted ==
    /\ batchPc = "running"
    /\ \E c \in BatchCells :
          /\ cell[c].pc = "persisting"
          /\ cell' = [cell EXCEPT ![c] = CellAt("done", "none", cell[c].raised)]
          /\ events' = [events EXCEPT ![c] =
                           Append(@, OperationComplete(c[2], cell[c].value))]
    /\ UNCHANGED << orchestrator, leads, operations, jobId, batchPc, jobEvents,
                    extCalls, dbWrites, progressed, trackerVars, limiterVars,
                    lookupVars, registryVars, fanoutVars,
                    outboundVars >>

\* prisma.lead.update of a cell raises.  In the API process the catch block
\* emits operation-error.  updateLeadAndNotify rethrows, and the engine runs
\* the activity again (proxyActivities without a retry option).
CellPersistRaises ==
    /\ batchPc = "running"
    /\ \E c \in BatchCells :
          /\ cell[c].pc = "persisting"
          /\ IF orchestrator = "inProcess"
             THEN /\ cell' = [cell EXCEPT ![c] = CellAt("failed", "none", TRUE)]
                  /\ events' = [events EXCEPT ![c] =
                                   Append(@, [event |-> "operation-error"])]
                  /\ UNCHANGED dbWrites
             ELSE /\ dbWrites[c] < MaxWrites
                  /\ cell' = [cell EXCEPT ![c] =
                                 CellAt("persisting", cell[c].value, TRUE)]
                  /\ dbWrites' = [dbWrites EXCEPT ![c] = @ + 1]
                  /\ UNCHANGED events
    /\ UNCHANGED << orchestrator, leads, operations, jobId, batchPc, jobEvents,
                    extCalls, progressed, trackerVars, limiterVars, lookupVars,
                    registryVars, fanoutVars,
                    outboundVars >>

\* the inner Promise.all of a lead is settled: incrementProgress(jobId)
LeadSettled ==
    /\ orchestrator = "inProcess"
    /\ batchPc = "running"
    /\ \E lead \in DOMAIN leads :
          /\ lead \notin progressed
          /\ \A c \in BatchCells : c[1] = lead => cell[c].pc \in { "done", "failed" }
          /\ progressed' = progressed \cup { lead }
    /\ jobs' = incrementProgress(jobs, jobId, trNow)
    /\ UNCHANGED << orchestrator, leads, operations, jobId, batchPc, cell, events,
                    jobEvents, extCalls, dbWrites, returnedIds, trNow, trTicks,
                    cleanupTimers, observed, limiterVars, lookupVars,
                    registryVars, fanoutVars,
                    outboundVars >>

\* job-complete emitted as soon as one lead is settled
JobCompleteEmitted_early ==
    /\ orchestrator = "inProcess"
    /\ batchPc = "running"
    /\ progressed # {}
    /\ jobEvents' = Append(jobEvents,
                       [event |-> "job-complete", jobId |-> jobId,
                        type |-> "enrichment",
                        totalProcessed |-> totalProcessed(jobs, jobId)])
    /\ batchPc' = IF progressed = DOMAIN leads THEN "closing" ELSE "running"
    /\ UNCHANGED << orchestrator, leads, operations, jobId, cell, events, extCalls,
                    dbWrites, progressed, trackerVars, limiterVars, lookupVars,
                    registryVars, fanoutVars,
                    outboundVars >>

\* the outer Promise.all is settled: job-complete is emitted
JobCompleteEmitted ==
    /\ orchestrator = "inProcess"
    /\ batchPc = "running"
    /\ progressed = DOMAIN leads
    /\ jobEvents' = Append(jobEvents,
                       [event |-> "job-complete", jobId |-> jobId,
                        type |-> "enrichment",
                        totalProcessed |-> totalProcessed(jobs, jobId)])
    /\ batchPc' = "closing"
    /\ UNCHANGED << orchestrator, leads, operations, jobId, cell, events, extCalls,
                    dbWrites, progressed, trackerVars, limiterVars, lookupVars,
                    registryVars, fanoutVars,
                    outboundVars >>

\* connection.close() returned: jobTracker.cleanup(jobId)
ConnectionClosed ==
    /\ batchPc = "closing"
    /\ batchPc' = "finished"
    /\ cleanupTimers' = cleanup(jobs, cleanupTimers, jobId, trNow)
    /\ UNCHANGED << orchestrator, leads, operations, jobId, cell, events, jobEvents,
                    extCalls, dbWrites, progressed, jobs, returnedIds, trNow,
                    trTicks, observed, limiterVars, lookupVars, registryVars,
                    fanoutVars,
                    outboundVars >>

\* Promise.all of batchEnrichmentWorkflow is fulfilled: the workflow completes
BatchWorkflowDone ==
    /\ orchestrator = "batchWorkflow"
    /\ batchPc = "running"
    /\ \A c \in BatchCells : cell[c].pc = "done"
    /\ batchPc' = "finished"
    /\ UNCHANGED << orchestrator, leads, operations, jobId, cell, events, jobEvents,
                    extCalls, dbWrites, progressed, trackerVars, limiterVars,
                    lookupVars, registryVars, fanoutVars,
                    outboundVars >>

EnrichInit ==
    /\ LimiterIdle
    /\ configs = PROVIDER_CONFIGS(<< TRUE, TRUE, TRUE >>)
    /\ LookupIdle
    /\ \E which \in { "inProcess", "batchWorkflow" } : BatchSideIdle(which)

EnrichNext ==
    \/ BatchRequested
    \/ ConnectionFails
    \/ CellsDispatched
    \/ BatchWorkflowStarted
    \/ ChildrenDispatched
    \/ CellWorkflowReturns
    \/ CellWorkflowRaises
    \/ CellPersisted
    \/ CellPersistRaises
    \/ LeadSettled
    \/ JobCompleteEmitted
    \/ ConnectionClosed
    \/ BatchWorkflowDone
    \/ CleanupFires
    \/ ApiClockTick

EnrichSpec ==
    EnrichInit /\ [][EnrichNext]_vars

\* One bulk job of POST /leads/verify-emails or POST /leads/phone-lookup: the
\* leads are taken one after the other by processEmailVerifications or
\* processPhoneLookups ("sequential"), over every choice of lead rows and of
\* the outcome of every lead.

\* the job type of the route that runs an operation
BulkType(operation) ==
    IF operation = "verify-email" THEN "email-verification" ELSE "phone-lookup"

\* the route handler: the job is created for the leads found (for the phone
\* route, those without a phone number; none left ends the request), the
\* processor is called and suspends in Connection.connect
BulkRequested ==
    /\ orchestrator = "sequential"
    /\ batchPc = "idle"
    /\ Len(returnedIds) < MaxJobs
    /\ \E found \in LeadLists, operation \in Operations, random \in 1..MaxRandom :
          LET rows == IF operation = "verify-email" THEN found
                      ELSE SelectSeq(found, LAMBDA lead : lead.phoneNumber = None)
          IN  /\ Len(rows) > 0
              /\ leads' = rows
              /\ operations' = { operation }
              /\ jobs' = createJob(jobs, newJobId(trNow, random),
                                   BulkType(operation), Len(rows), trNow)
              /\ returnedIds' = Append(returnedIds, newJobId(trNow, random))
              /\ jobId' = newJobId(trNow, random)
    /\ batchPc' = "connecting"
    /\ UNCHANGED << orchestrator, cell, events, jobEvents, extCalls, dbWrites,
                    progressed, trNow, trTicks, cleanupTimers, observed,
                    limiterVars, lookupVars, registryVars, fanoutVars,
                    outboundVars >>

\* Connection.connect returned: the for loop is entered
BulkConnected ==
    /\ orchestrator = "sequential"
    /\ batchPc = "connecting"
    /\ batchPc' = "running"
    /\ UNCHANGED << orchestrator, leads, operations, jobId, cell, events,
                    jobEvents, extCalls, dbWrites, progressed, trackerVars,
                    limiterVars, lookupVars, registryVars, fanoutVars,
                    outboundVars >>

\* one turn of the for loop, for the next lead (progressed holds the leads
\* whose turn is over).  The workflow returns and the row is written: the
\* job is read, incrementProgress is called and the lead's event is emitted
\* with the counters of the job read (the tracker's own record).  The
\* workflow or the write raises: the catch block emits lead-error.
BulkLeadTaken ==
    /\ orchestrator = "sequential"
    /\ batchPc = "running"
    /\ progressed # DOMAIN leads
    /\ LET lead == Cardinality(progressed) + 1
           operation == CHOOSE o \in operations : TRUE
           c == << lead, operation >>
       IN  /\ progressed' = progressed \cup { lead }
           /\ extCalls' = [extCalls EXCEPT ![c] = @ + 1]
           /\ \E outcome \in { "written", "workflowRaised", "writeRaised" },
                 value \in WorkflowValues(operation) :
                 LET writes == IF operation = "verify-email" THEN TRUE
                               ELSE value.phone # None
                 IN  /\ outcome = "writeRaised" => writes
                     /\ dbWrites' = [dbWrites EXCEPT ![c] =
                                        IF outcome # "workflowRaised" /\ writes
                                        THEN @ + 1 ELSE @]
                     /\ jobs' = IF outcome = "written"
                                THEN incrementProgress(jobs, jobId, trNow)
                                ELSE jobs
                     /\ events' = [events EXCEPT ![c] = Append(@,
                                      IF outcome = "written"
                                      THEN [event |-> IF operation = "verify-email"
                                                      THEN "lead-verified"
                                                      ELSE "phone-found",
                                            data |-> value,
                                            progress |->
                                              IF jobId \in DOMAIN jobs
                                              THEN [processed |-> jobs'[jobId].processedLeads,
                                                    total |-> jobs'[jobId].totalLeads]
                                              ELSE [processed |-> 0, total |-> 0]]
                                      ELSE [event |-> "lead-error"])]
    /\ UNCHANGED << orchestrator, leads, operations, jobId, batchPc, cell,
                    jobEvents, returnedIds, trNow, trTicks, cleanupTimers,
                    observed, limiterVars, lookupVars, registryVars, fanoutVars,
                    outboundVars >>

\* the for loop is over: job-complete is emitted
BulkJobCompleteEmitted ==
    /\ orchestrator = "sequential"
    /\ batchPc = "running"
    /\ progressed = DOMAIN leads
    /\ jobEvents' = Append(jobEvents,
                       [event |-> "job-complete", jobId |-> jobId,
                        type |-> BulkType(CHOOSE o \in operations : TRUE),
                        totalProcessed |-> totalProcessed(jobs, jobId)])
    /\ batchPc' = "closing"
    /\ UNCHANGED << orchestrator, leads, operations, jobId, cell, events, extCalls,
                    dbWrites, progressed, trackerVars, limiterVars, lookupVars,
                    registryVars, fanoutVars,
                    outboundVars >>

BulkInit ==
    /\ LimiterIdle
    /\ configs = PROVIDER_CONFIGS(<< TRUE, TRUE, TRUE >>)
    /\ LookupIdle
    /\ BatchSideIdle("sequential")

BulkNext ==
    \/ BulkRequested
    \/ ConnectionFails
    \/ BulkConnected
    \/ BulkLeadTaken
    \/ BulkJobCompleteEmitted
    \/ ConnectionClosed
    \/ CleanupFires
    \/ ApiClockTick

BulkSpec ==
    BulkInit /\ [][BulkNext]_vars

\* The workflow ids either orchestrator gives the workflows it starts, over
\* every choice of job, lead, operation and instant of the start.

\* the workflowId option of the start of a cell's workflow:
\* `${operation}-${lead.id}-${jobId}` in batchEnrichmentWorkflow,
\* `${operation}-${lead.id}-${Date.now()}` in the API process
workflowId(which, operation, lead, job, at) ==
    IF which = "batchWorkflow"
    THEN << operation, lead, job >>
    ELSE << operation, lead, at >>

\* the workflow of a cell of a job is started.  The API process starts a cell
\* once; the engine may run the startChild of batchEnrichmentWorkflow again.
WorkflowDispatched ==
    /\ Cardinality(dispatched) < MaxDispatches
    /\ \E i \in DOMAIN returnedIds, operation \in Operations, lead \in 1..MaxLeads :
          /\ orchestrator = "inProcess" =>
                ~\E d \in dispatched : /\ d.operation = operation
                                       /\ d.lead = lead
                                       /\ d.jobId = returnedIds[i]
          /\ dispatched' = dispatched \cup
                { [operation |-> operation, lead |-> lead, jobId |-> returnedIds[i],
                   workflowId |-> workflowId(orchestrator, operation, lead,
                                             returnedIds[i], trNow)] }
    /\ UNCHANGED << io, rooms, inbox, busLog, limiterVars, lookupVars,
                    registryVars, fanoutVars, trackerVars, enrichVars >>

DispatchInit ==
    /\ LimiterIdle
    /\ configs = PROVIDER_CONFIGS(<< TRUE, TRUE, TRUE >>)
    /\ LookupIdle
    /\ \E which \in { "inProcess", "batchWorkflow" } : BatchSideIdle(which)

DispatchNext ==
    \/ EnrichmentJobCreated
    \/ ApiClockTick
    \/ WorkflowDispatched

DispatchSpec ==
    DispatchInit /\ [][DispatchNext]_vars

\* The progress bus: sockets that subscribe to job rooms and leave, a
\* SocketService that gets its server attached, and publications to rooms.
\* A publication is known by its position in busLog.

\* a bus that delivers to every connected socket
emit_toAll(server, joined, roomId) ==
    IF server = None THEN {} ELSE DOMAIN joined

\* SocketService.emit(roomId, event, data): the sockets that get the event.
\* io.to(roomId).emit reaches the sockets that are in the room at the call.
emit(server, joined, roomId) ==
    IF server = None
    THEN {}
    ELSE { s \in DOMAIN joined : roomId \in joined[s] }

\* socketService.setIO(io)
IoAttached ==
    /\ Len(busLog) < MaxBusEvents
    /\ io = None
    /\ io' = "server"
    /\ busLog' = Append(busLog, [op |-> "setIO", socket |-> 0, room |-> None])
    /\ UNCHANGED << rooms, inbox, dispatched, limiterVars, lookupVars,
                    registryVars, fanoutVars, trackerVars, enrichVars >>

\* socket.on('subscribe-job', jobId): socket.join(jobId)
SocketSubscribes ==
    /\ Len(busLog) < MaxBusEvents
    /\ \E s \in DOMAIN rooms, r \in 1..MaxRandom :
          /\ rooms' = [rooms EXCEPT ![s] = @ \cup { newJobId(0, r) }]
          /\ busLog' = Append(busLog, [op |-> "subscribe", socket |-> s,
                                       room |-> newJobId(0, r)])
    /\ UNCHANGED << io, inbox, dispatched, limiterVars, lookupVars,
                    registryVars, fanoutVars, trackerVars, enrichVars >>

\* socket.on('disconnect'): the server has taken the socket out of its rooms;
\* a client that comes back is another socket
SocketDisconnects ==
    /\ Len(busLog) < MaxBusEvents
    /\ \E s \in DOMAIN rooms :
          /\ rooms' = [t \in DOMAIN rooms \ { s } |-> rooms[t]]
          /\ busLog' = Append(busLog, [op |-> "disconnect", socket |-> s,
                                       room |-> None])
    /\ UNCHANGED << io, inbox, dispatched, limiterVars, lookupVars,
                    registryVars, fanoutVars, trackerVars, enrichVars >>

\* socketService.emit(jobId, event, data)
Published ==
    /\ Len(busLog) < MaxBusEvents
    /\ \E r \in 1..MaxRandom :
          /\ inbox' = [s \in DOMAIN inbox |->
                          IF s \in emit(io, rooms, newJobId(0, r))
                          THEN inbox[s] \cup { Len(busLog) + 1 }
                          ELSE inbox[s]]
          /\ busLog' = Append(busLog, [op |-> "emit", socket |-> 0,
                                       room |-> newJobId(0, r)])
    /\ UNCHANGED << io, rooms, dispatched, limiterVars, lookupVars,
                    registryVars, fanoutVars, trackerVars, enrichVars >>

BusNext ==
    \/ IoAttached
    \/ SocketSubscribes
    \/ SocketDisconnects
    \/ Published

BusSpec ==
    TrackerInit /\ [][BusNext]_vars

\* ------------------------------------------------------- limiter claims
AdmittedIds ==
    { admitLog[i].req : i \in DOMAIN admitLog }

\* C1: on one limiter, activeRequests never exceeds maxConcurrent, and the
\* callables really in flight (admitted, .finally not yet run) never exceed
\* activeRequests.
C1_ConcurrencyCap ==
    /\ activeRequests <= maxConcurrent
    /\ Cardinality(running \cup finishing) <= activeRequests

\* the cap binds: a token is there, yet the head waits for a slot
C1_Witness ==
    /\ activeRequests = maxConcurrent
    /\ Len(queue) > 0
    /\ tokens >= timeWindow

\* C2: waiters start in the order of their execute calls (call r is the r-th
\* execute): the admissions are in increasing call order and non-decreasing
\* time, and no queued waiter was called before an admitted one, so the head
\* is never skipped.
C2_Fifo ==
    /\ \A i, j \in DOMAIN admitLog :
          i < j => /\ admitLog[i].req < admitLog[j].req
                   /\ admitLog[i].at <= admitLog[j].at
    /\ \A k \in DOMAIN queue : \A a \in AdmittedIds : a < queue[k].execute.id
    /\ \A k, l \in DOMAIN queue : k < l => queue[k].execute.id < queue[l].execute.id

\* a waiter was held back and admitted later while another one still waits
C2_Witness ==
    /\ Len(admitLog) >= 2
    /\ admitLog[Len(admitLog)].at > admitLog[1].at
    /\ Len(queue) > 0

\* C3 (as claimed): any window [t, t + timeWindow) holds at most
\* maxTokens + 1 admissions.  It is enough to look at the windows that start
\* at an admission.
C3_WindowBound ==
    \A i \in DOMAIN admitLog :
        Cardinality({ j \in DOMAIN admitLog :
                        /\ admitLog[i].at <= admitLog[j].at
                        /\ admitLog[j].at < admitLog[i].at + timeWindow })
            <= maxTokens + 1

\* C4 (as claimed, with the 10% tolerance of the test): when all callables
\* are submitted at the instant the limiter is built, the k-th admission
\* starts no earlier than 0.9 * floor((k-1)/maxTokens) * timeWindow after
\* the first.
C4_BurstSchedule ==
    (\A r \in 1..nextId : enqAt[r] = 0) =>
        \A k \in DOMAIN admitLog :
            10 * (admitLog[k].at - admitLog[1].at)
                >= 9 * ((k - 1) \div maxTokens) * timeWindow

C6_NoWaiterStranded ==
    ( /\ running = {}
      /\ finishing = {}
      /\ timers = EmptyBag
      /\ \A r \in Requests : fnKind[r] # "throws" )
        => Len(queue) = 0

\* C23: a waiter cancelled before admission is no longer in the queue, its
\* callable is never invoked (so it takes no token and no slot), and its
\* execute promise is rejected; a waiter cancelled after admission is not
\* touched by the cancellation, which the limiter never hears of.
C23_CancelledWaiterRemoved ==
    \A r \in cancelled :
        /\ \A k \in DOMAIN queue : queue[k].execute.id # r
        /\ calls[r] = 0
        /\ promise[r].state = "rejected"

\* C26: every admission made by a step was made on tokens >= 1 and
\* activeRequests < maxConcurrent, as canProcessRequest left them after its
\* refill; and a step that admits k waiters takes the first k waiters off
\* the queue, raises activeRequests by exactly k (less the one a .finally
\* released) and, when no refill fell into the step, lowers tokens by exactly
\* k: check and updates are one step, nothing else comes in between.
C26_AtomicAdmission ==
    [][ LET k        == Len(admitLog') - Len(admitLog)
            pushed   == IF nextId' # nextId
                        THEN << [execute |-> [id |-> nextId', kind |-> fnKind'[nextId']],
                                 resolve |-> nextId'] >>
                        ELSE << >>
            released == Cardinality(finishing \ finishing')
        IN  /\ k >= 0
            /\ \A i \in (Len(admitLog) + 1)..Len(admitLog') :
                  /\ admitLog'[i].tokens >= timeWindow
                  /\ admitLog'[i].activeRequests < maxConcurrent
                  /\ admitLog'[i].req = (queue \o pushed)[i - Len(admitLog)].execute.id
            /\ queue' = SubSeq(queue \o pushed, k + 1, Len(queue \o pushed))
            /\ activeRequests' = activeRequests - released + k
            /\ lastRefill' = lastRefill => tokens' = tokens - k * timeWindow
            /\ tokens' <= tokens + (now' - lastRefill) * maxTokens - k * timeWindow
      ]_vars

\* a step that admitted two waiters at once, the second on the last token
C26_Witness ==
    /\ Len(admitLog) >= 2
    /\ admitLog[Len(admitLog)].at = admitLog[Len(admitLog) - 1].at
    /\ admitLog[Len(admitLog)].tokens = timeWindow
    /\ admitLog[Len(admitLog)].activeRequests = 1
    /\ tokens < timeWindow

\* C27: every admitted callable that has ended, by fulfilling, rejecting or
\* throwing before it returned a promise, has given its slot back exactly
\* once: activeRequests counts exactly the admitted callables that are still
\* pending or whose .finally has not run yet, a consumed token is never
\* returned (the callables invoked never outnumber what the bucket held and
\* what refills added), and once every submitted callable has ended
\* activeRequests is 0.
C27_SlotReleased ==
    /\ activeRequests = Cardinality(running) + Cardinality(finishing)
    /\ Len(admitLog) * timeWindow + tokens
           <= maxTokens * timeWindow + lastRefill * maxTokens
    /\ (queue = << >> /\ running = {} /\ finishing = {}) => activeRequests = 0

\* C28: in every reachable state 0 <= tokens <= maxTokens, so that
\* getStats().availableTokens = Math.floor(tokens) lies in 0..maxTokens; a
\* step whose refill advanced lastRefill and admitted nobody added exactly
\* elapsed * refillRate, clamped at maxTokens; lastRefill never moves back nor
\* passes the clock; and every token consumed was taken from tokens >= 1.
\* (tokens is kept in units of 1/timeWindow of a token.)
C28_TokenBounds ==
    /\ [](/\ 0 <= tokens
          /\ tokens <= maxTokens * timeWindow
          /\ (tokens \div timeWindow) \in 0..maxTokens
          /\ lastRefill <= now
          /\ \A i \in DOMAIN admitLog : admitLog[i].tokens >= timeWindow)
    /\ [][ /\ lastRefill' >= lastRefill
           /\ admitLog' = admitLog =>
                 tokens' = Min(maxTokens * timeWindow,
                               tokens + (lastRefill' - lastRefill) * maxTokens)
           /\ tokens' > tokens => lastRefill' > lastRefill ]_vars

\* a refill that met the clamp after a token had been consumed
C28_Witness ==
    /\ Len(admitLog) >= 1
    /\ tokens = maxTokens * timeWindow
    /\ lastRefill * maxTokens > Len(admitLog) * timeWindow

\* C29: whenever a processQueue run (started by execute, by a .finally or by
\* a timer) ends with a non-empty queue whose head cannot be admitted, be it
\* for want of a token or because activeRequests stands at maxConcurrent, a
\* timer is pending that is due ceil((1 - tokens) / refillRate) ms after the
\* end of the run (at once when that is not positive); and a step that runs
\* no handler (the clock advancing, a promise settling) never admits.
C29_RetryScheduled ==
    [][ LET ran  == \/ nextId' # nextId
                    \/ Cardinality(finishing') < Cardinality(finishing)
                    \/ \E due \in BagToSet(timers) :
                          CopiesIn(due, timers') < CopiesIn(due, timers)
            wait == CeilDiv(timeWindow - tokens', maxTokens)
        IN  /\ ( /\ ran
                 /\ queue' # << >>
                 /\ (tokens' < timeWindow \/ activeRequests' >= maxConcurrent) )
               => BagIn(now' + (IF wait > 0 THEN wait ELSE 0), timers')
            /\ ~ran => admitLog' = admitLog /\ timers' = timers
      ]_vars

\* C30: one PhoneProvider.execute call takes exactly one token and holds
\* exactly one slot of its provider's limiter from its start to its return,
\* whether the lookup is at its first, second or third HTTP attempt: of the
\* limiters an activity built, the one of the provider being called stands
\* at activeRequests = 1, every other at 0, and each has given as many tokens
\* as execute calls were made on it (one per provider reached); a step that
\* only retries an HTTP attempt admits nothing and leaves the limiters as
\* they were.
C30_OneAdmissionPerExecute ==
    /\ [](\A l \in 1..MaxLookups : \A n \in DOMAIN fanout[l].limiters :
            LET act      == fanout[l].act
                inFlight == /\ act.status = "running"
                            /\ act.providers[act.idx].name = n
                executed == Cardinality({ i \in 1..act.idx : act.providers[i].name = n })
                lim      == fanout[l].limiters[n]
            IN  /\ act.attempt \in 0..(maxRetries - 1)
                /\ lim.activeRequests = (IF inFlight THEN 1 ELSE 0)
                /\ lim.tokens = lim.maxTokens - executed)
    /\ [][ \A l \in 1..MaxLookups :
             ( /\ fanout[l].act.status = "running"
               /\ fanout'[l].act.status = "running"
               /\ fanout'[l].act.idx = fanout[l].act.idx
               /\ fanout'[l].act.attempt > fanout[l].act.attempt )
             => /\ fanout'[l].limiters = fanout[l].limiters
                /\ provAdmits' = provAdmits ]_vars

\* a lookup at its third HTTP attempt, its second provider in flight
C30_Witness ==
    \E l \in 1..MaxLookups :
        /\ fanout[l].act.status = "running"
        /\ fanout[l].act.attempt = maxRetries - 1
        /\ fanout[l].act.idx = 2
        /\ fanout[l].limiters[fanout[l].act.providers[2].name].activeRequests = 1

C39_ReevaluationPending ==
    Len(queue) > 0 => activeRequests > 0 \/ timers # EmptyBag

\* -------------------------------------------------------- lookup claims
ConfigOf(name) ==
    CHOOSE c \in { configs[i] : i \in DOMAIN configs } : c.name = name

CalledNames ==
    { callLog[i] : i \in DOMAIN callLog }

\* C7: providers are called in ascending priority, enabled ones only and each
\* at most once; no provider is called after one delivered a phone; a result
\* with a phone is the result of the last provider called, with its name and
\* cost, and every enabled provider of higher priority was tried before it.
C7_Waterfall ==
    /\ \A i, j \in DOMAIN callLog :
          i < j => ConfigOf(callLog[i]).priority < ConfigOf(callLog[j]).priority
    /\ \A i \in DOMAIN callLog :
          /\ ConfigOf(callLog[i]).enabled
          /\ i < Len(callLog) => execResult[callLog[i]].phone \in {None, "pending"}
    /\ (wfPc = "done" /\ wfResult.phone # None) =>
          LET n == callLog[Len(callLog)]
          IN  /\ wfResult = [phone |-> PhoneOf(n), provider |-> n,
                             cost |-> ConfigOf(n).costPerRequest]
              /\ wfResult = execResult[n]
              /\ \A i \in DOMAIN configs :
                    (configs[i].enabled /\ configs[i].priority < ConfigOf(n).priority)
                        => configs[i].name \in CalledNames

\* Orion returned none, Astra's phone is returned, Nimbus was never called
C7_Witness ==
    /\ wfPc = "done"
    /\ callLog = << "Orion Connect", "Astra Dialer" >>
    /\ execResult["Orion Connect"].phone = None
    /\ wfResult.phone = "+1-777"
    /\ wfResult.provider = "Astra Dialer"
    /\ ConfigOf("Nimbus Lookup").enabled
    /\ httpCalls["Nimbus Lookup"] = 0

\* C8 (as claimed): a failed step is not terminal: the workflow goes on with
\* the next provider, so it returns no phone only after every provider has
\* been tried (stated for the shipped configuration, all three enabled).
C8_FailureNotTerminal ==
    ( /\ configs = PROVIDER_CONFIGS(<< TRUE, TRUE, TRUE >>)
      /\ wfPc = "done"
      /\ failedSteps # {}
      /\ wfResult.phone = None ) =>
        \A i \in DOMAIN configs : configs[i].enabled => configs[i].name \in CalledNames

\* C9 (as claimed): a returned result without phone has provider "None" and
\* cost 0 (stated for the shipped configuration, all three enabled).
C9_NoneResultShape ==
    ( /\ configs = PROVIDER_CONFIGS(<< TRUE, TRUE, TRUE >>)
      /\ wfPc = "done"
      /\ wfResult.phone = None ) =>
        /\ DOMAIN wfResult = {"phone", "provider", "cost"}
        /\ wfResult.provider = "None"
        /\ wfResult.cost = 0

\* C10: whatever PhoneProvider.execute returns carries the name and the
\* costPerRequest of its own config, with or without a phone.
C10_CostPerAttempt ==
    \A i \in DOMAIN configs :
        LET c == configs[i]
        IN  execResult[c.name] # NotCalled =>
                /\ execResult[c.name].provider = c.name
                /\ execResult[c.name].cost = c.costPerRequest

\* a lookup that used all three HTTP attempts, found nothing and is billed
C10_Witness ==
    \E i \in DOMAIN configs :
        /\ httpCalls[configs[i].name] = maxRetries
        /\ execResult[configs[i].name] =
              [phone |-> None, provider |-> configs[i].name,
               cost |-> configs[i].costPerRequest]
        /\ configs[i].costPerRequest > 0

\* C21: one provider lookup makes at most 3 HTTP attempts; a further attempt
\* follows only an attempt that met a transport-level error or an HTTP 5xx
\* (so none follows a successful response or a 4xx); and once an attempt is
\* the last one (the third, a successful response, a 4xx, or a failure that
\* is no HTTP error), the lookup has returned a value to its caller: the phone
\* of a successful response, none otherwise.
C21_RetryPolicy ==
    \A n \in KnownProviders :
        LET log == httpLog[n]
        IN  /\ Len(log) <= 3
            /\ \A i \in 1..(Len(log) - 1) : log[i] \in { "5xx", "network" }
            /\ ( /\ Len(log) > 0
                 /\ \/ Len(log) = 3
                    \/ log[Len(log)] \in { "ok", "noPhone", "4xx", "other" } ) =>
                    /\ execResult[n] # NotCalled
                    /\ execResult[n].phone =
                          IF log[Len(log)] = "ok" THEN PhoneOf(n) ELSE None

\* C36: a workflow step runs the attempts of one provider only, and the
\* longest its work can have taken fits its startToCloseTimeout: every HTTP
\* attempt made in the step counted at the provider's config.timeout, plus
\* the backoff sleeps between the attempts of a provider, summed over the
\* providers the step has executed.
C36_StepTimeoutCoversWork ==
    activity.status \in { "running", "returned" } =>
        LET longest(i) ==
                IF i > activity.idx THEN 0
                ELSE LET config   == activity.providers[i]
                         attempts == Len(httpLog[config.name])
                     IN  attempts * config.timeout
                         + (IF attempts >= 2 THEN backoffTime(0) ELSE 0)
                         + (IF attempts >= 3 THEN backoffTime(1) ELSE 0)
        IN  /\ Len(activity.providers) <= 1
            /\ longest(1) + longest(2) + longest(3) <= startToCloseTimeout

\* ------------------------------------------------ fan-out and batch claims
\* C11: over all lookups running at once, the calls to one provider pass one
\* limiter: per provider, the calls in flight never exceed maxConcurrent, and
\* the admissions between any two instants never exceed what one bucket holds
\* and refills in that time (rateLimit, plus rateLimit per timeWindow).
C11_SharedLimiter ==
    \A n \in KnownProviders :
        /\ Cardinality(InFlight(n)) <= ConfigOf(n).maxConcurrent
        /\ \A i, j \in DOMAIN provAdmits[n] :
              i <= j =>
                 j - i + 1 <= ConfigOf(n).rateLimit
                              + CeilDiv((provAdmits[n][j] - provAdmits[n][i])
                                           * ConfigOf(n).rateLimit,
                                        ConfigOf(n).timeWindow)

\* C12: when a batch of N leads and both operations is over, the events
\* operation-complete and operation-error emitted number 2N together, and
\* one job-complete was emitted, with totalProcessed <= N; never more than one
\* job-complete is emitted.  The batch is over when processEnrichment has
\* emitted job-complete, or when batchEnrichmentWorkflow has closed.
C12_ProgressCompleteness ==
    /\ Len(jobEvents) <= 1
    /\ ( /\ batchPc \in { "closing", "finished", "failed" }
         /\ operations = Operations ) =>
          /\ Cardinality(UNION { { << c, i >> : i \in DOMAIN events[c] } :
                                 c \in Cells }) = 2 * Len(leads)
          /\ Len(jobEvents) = 1
          /\ jobEvents[1].totalProcessed <= Len(leads)

\* C13: a cell whose field is already known starts no workflow and makes no
\* write, and once the cells are dispatched it has emitted one event, the
\* synthetic operation-complete that carries the known value (for a phone:
\* that phone, provider "Existing", cost 0).
C13_SkipIdempotent ==
    \A c \in BatchCells :
        AlreadyKnown(leads[c[1]], c[2]) =>
            /\ extCalls[c] = 0
            /\ dbWrites[c] = 0
            /\ cell[c].pc # "init" =>
                  /\ Len(events[c]) = 1
                  /\ events[c][1].event = "operation-complete"
                  /\ events[c][1].data = SyntheticData(leads[c[1]], c[2])

\* C14: a cell whose workflow or write raised has one operation-error and no
\* operation-complete; no other cell is cancelled for it; and when the batch
\* is over every cell has emitted its event and job-complete was emitted.
C14_CellFailureIsolated ==
    (\E c \in BatchCells : cell[c].raised) =>
        /\ \A c \in BatchCells :
              cell[c].raised =>
                 /\ Cardinality({ i \in DOMAIN events[c] :
                        events[c][i].event = "operation-error" }) = 1
                 /\ \A i \in DOMAIN events[c] :
                        events[c][i].event # "operation-complete"
        /\ \A d \in BatchCells : cell[d].pc # "cancelled"
        /\ batchPc \in { "closing", "finished", "failed" } =>
              /\ \A d \in BatchCells : Len(events[d]) = 1
              /\ Len(jobEvents) = 1

\* C15: when processEnrichment is past its last cell and every cell of the
\* batch ended in operation-error, job-complete was emitted with
\* totalProcessed = 0.
C15_AllFailedTotalZero ==
    ( /\ orchestrator = "inProcess"
      /\ batchPc \in { "closing", "finished", "failed" }
      /\ \A c \in BatchCells : cell[c].pc = "failed" ) =>
        /\ Len(jobEvents) = 1
        /\ jobEvents[1].totalProcessed = 0

\* C31: a step that emits job-complete finds, for every cell of the job, an
\* operation-complete or operation-error already emitted, the job's record
\* still in the tracker and no cleanup of the job scheduled; once job-complete
\* is emitted no cell emits any more; and a step that schedules the job's
\* cleanup comes after job-complete.
C31_JobCompleteLast ==
    [][ /\ jobEvents' # jobEvents =>
              /\ \A c \in BatchCells :
                    /\ events[c] # << >>
                    /\ events[c][Len(events[c])].event
                          \in { "operation-complete", "operation-error" }
              /\ jobId \in DOMAIN jobs
              /\ \A timer \in cleanupTimers : timer.id # jobId
        /\ jobEvents # << >> => events' = events
        /\ (\E timer \in cleanupTimers' \ cleanupTimers : timer.id = jobId)
              => jobEvents # << >> /\ jobEvents' = jobEvents
      ]_vars

\* a finished job with a failed cell and a completed cell, job-complete
\* emitted and the cleanup scheduled
C31_Witness ==
    /\ batchPc = "finished"
    /\ Len(jobEvents) = 1
    /\ \E c, d \in BatchCells :
          /\ cell[c].pc = "failed"
          /\ cell[d].pc = "done" /\ dbWrites[d] = 1
    /\ \E timer \in cleanupTimers : timer.id = jobId

\* C32: the only writes to a lead are the write of emailVerified by its
\* verify-email cell and of phoneNumber by its phone-lookup cell.  A cell
\* whose field was known writes nothing; a phone-lookup cell writes only a
\* phone its lookup found, and one whose lookup returned no phone has
\* completed without a write; a cell whose workflow failed has written
\* nothing; a lead outside the batch is not written.  A write is issued only
\* by a cell that holds the value its workflow returned.
C32_WritesOnlyEnrichedFields ==
    /\ [](\A c \in Cells :
            /\ c \notin BatchCells => dbWrites[c] = 0
            /\ c \in BatchCells =>
                  /\ AlreadyKnown(leads[c[1]], c[2]) => dbWrites[c] = 0
                  /\ cell[c].pc = "persisting" =>
                        IF c[2] = "phone-lookup"
                        THEN cell[c].value.phone \notin { None, "none" }
                        ELSE cell[c].value \in { "true", "false" }
                  /\ \A i \in DOMAIN events[c] :
                        ( /\ c[2] = "phone-lookup"
                          /\ events[c][i].event = "operation-complete"
                          /\ events[c][i].data.phone = None ) => dbWrites[c] = 0)
    /\ [][ \A c \in Cells :
             /\ dbWrites'[c] # dbWrites[c] =>
                   /\ dbWrites'[c] = dbWrites[c] + 1
                   /\ cell[c].pc \in { "calling", "persisting" }
                   /\ cell'[c].pc = "persisting"
             /\ ( /\ cell[c].pc = "calling"
                  /\ cell'[c].pc \in { "failed", "cancelled" } ) => dbWrites'[c] = 0
       ]_vars

\* of one lead, the email cell has written, the phone cell completed on a
\* lookup without phone; the phone cell of another lead failed in its workflow
C32_Witness ==
    \E c, d, e \in BatchCells :
        /\ c[1] = d[1] /\ e[1] # c[1]
        /\ c[2] = "verify-email" /\ cell[c].pc = "done" /\ dbWrites[c] = 1
        /\ d[2] = "phone-lookup" /\ cell[d].pc = "done" /\ dbWrites[d] = 0
        /\ ~AlreadyKnown(leads[d[1]], d[2])
        /\ e[2] = "phone-lookup" /\ cell[e].pc = "failed" /\ dbWrites[e] = 0

\* C33: when the orchestrator has finished, by returning or by failing, every
\* cell of the batch has terminated on its own, completed or failed: none was
\* still calling its workflow or writing when the orchestrator ended, and
\* none had to be ended by the engine for it.
C33_FinishesAfterAllCells ==
    batchPc \in { "closing", "finished", "failed" } =>
        \A c \in BatchCells : cell[c].pc \in { "done", "failed" }

\* C38: every operation-complete event of a job of W = |leads| x |operations|
\* cells carries progress.total = W and a progress.completed; the completed
\* values of the events emitted so far are 1, 2, ..., their number, each once,
\* never above W; and when the batch is over without an errored cell the
\* events number W, the last carrying completed = W.
C38_ProgressCounter ==
    LET W        == Len(leads) * Cardinality(operations)
        complete == UNION { { events[c][i] : i \in { j \in DOMAIN events[c] :
                                events[c][j].event = "operation-complete" } } :
                            c \in Cells }
    IN  /\ \A e \in complete :
              /\ "progress" \in DOMAIN e
              /\ e.progress.total = W
              /\ e.progress.completed \in 1..W
        /\ { e.progress.completed : e \in complete } = 1..completedOperations
        /\ ( /\ batchPc \in { "closing", "finished", "failed" }
             /\ \A c \in BatchCells : cell[c].pc # "failed" )
              => completedOperations = W

\* C40: whenever a job-complete event is emitted for a job, the tracker's
\* record of that job is complete at that moment: processedLeads = totalLeads,
\* completedAt is set, and the event's totalProcessed equals totalLeads, also
\* when leads of the job failed.
C40_CompleteAtJobComplete ==
    [][jobEvents' # jobEvents =>
          LET e == jobEvents'[Len(jobEvents')]
          IN  /\ e.event = "job-complete"
              /\ e.jobId \in DOMAIN jobs
              /\ jobs[e.jobId].processedLeads = jobs[e.jobId].totalLeads
              /\ jobs[e.jobId].completedAt # NoDate
              /\ e.totalProcessed = jobs[e.jobId].totalLeads]_vars

\* C22: the workflowId of a started workflow is a function of (operation,
\* lead id, job id) and of nothing else: two starts have the same workflowId
\* exactly when they are starts of the same cell of the same job.
C22_DeterministicWorkflowId ==
    \A a, b \in dispatched :
        ( /\ a.operation = b.operation
          /\ a.lead = b.lead
          /\ a.jobId = b.jobId ) <=> a.workflowId = b.workflowId

\* C24: a socket has received exactly the publications made to a room while
\* the bus had its server, after the socket subscribed to that room and
\* before it disconnected: a socket of another room, a socket that subscribes
\* later, and every socket while the bus has no server, receive nothing.
C24_RoomDelivery ==
    \A s \in 1..MaxSockets :
        inbox[s] =
            { i \in DOMAIN busLog :
                /\ busLog[i].op = "emit"
                /\ \E a \in 1..(i - 1) : busLog[a].op = "setIO"
                /\ \E k \in 1..(i - 1) :
                      busLog[k] = [op |-> "subscribe", socket |-> s,
                                   room |-> busLog[i].room]
                /\ \A d \in 1..(i - 1) :
                      busLog[d] # [op |-> "disconnect", socket |-> s,
                                   room |-> None] }

\* a publication made without server reached nobody; the next one, to the
\* same room, reached the socket that was in the room and not the socket of
\* the other room, nor the socket that joined the room afterwards
C24_Witness ==
    \E s, t \in 1..MaxSockets, i, j, k \in DOMAIN busLog :
        /\ s # t
        /\ i < j /\ j < k
        /\ busLog[i].op = "emit" /\ busLog[j].op = "emit"
        /\ busLog[i].room = busLog[j].room
        /\ \E a \in (i + 1)..(j - 1) : busLog[a].op = "setIO"
        /\ \E b \in 1..(i - 1) :
              busLog[b] = [op |-> "subscribe", socket |-> s, room |-> busLog[i].room]
        /\ busLog[k] = [op |-> "subscribe", socket |-> t, room |-> busLog[j].room]
        /\ inbox[s] = { j }
        /\ inbox[t] = {}
        /\ \A m \in 1..MaxSockets : i \notin inbox[m]

\* ------------------------------------------------------ JobTracker claims
\* C16: every job has 0 <= processedLeads <= totalLeads.
C16_ProgressBounded ==
    \A id \in DOMAIN jobs :
        /\ 0 <= jobs[id].processedLeads
        /\ jobs[id].processedLeads <= jobs[id].totalLeads

\* C17: once a job of one lead or more has its completedAt, no operation on
\* the job changes it (steps that create a job are left aside).
C17_CompletedAtStampedOnce ==
    [][ returnedIds' = returnedIds =>
          \A id \in DOMAIN jobs \cap DOMAIN jobs' :
              (jobs[id].totalLeads > 0 /\ jobs[id].completedAt # NoDate) =>
                  jobs'[id].completedAt = jobs[id].completedAt ]_vars

\* C18: no step lowers the processedLeads of a job, and after every step a
\* job has its completedAt exactly when processedLeads = totalLeads.
C18_CompletedIffAllProcessed ==
    [][ /\ \A id \in DOMAIN jobs \cap DOMAIN jobs' :
              returnedIds' = returnedIds =>
                  jobs'[id].processedLeads >= jobs[id].processedLeads
        /\ \A id \in DOMAIN jobs' :
              (jobs'[id].completedAt # NoDate)
                 <=> (jobs'[id].processedLeads = jobs'[id].totalLeads) ]_vars

\* C19: the ids the create calls returned are pairwise different.
C19_UniqueIds ==
    \A i, j \in DOMAIN returnedIds : i # j => returnedIds[i] # returnedIds[j]

\* C25: a job leaves the tracker only when a cleanup timer of its id fires,
\* which happens no earlier than the delay after every cleanup call made on
\* it, and that step removes this job and no other; in every other step each
\* job stays in the tracker as the job it is; a cleanup call sets a timer of
\* exactly the delay on an existing job and changes no job.
C25_CleanupDelay ==
    [][ /\ \A id \in DOMAIN jobs :
              IF \E timer \in cleanupTimers \ cleanupTimers' : timer.id = id
              THEN /\ id \notin DOMAIN jobs'
                   /\ \A timer \in cleanupTimers :
                         timer.id = id => timer.due <= trNow
              ELSE /\ id \in DOMAIN jobs'
                   /\ jobs'[id].type = jobs[id].type
                   /\ jobs'[id].totalLeads = jobs[id].totalLeads
                   /\ jobs'[id].startedAt = jobs[id].startedAt
        /\ \A timer \in cleanupTimers' \ cleanupTimers :
              /\ timer.due = trNow + cleanupDelay
              /\ timer.id \in DOMAIN jobs
              /\ jobs' = jobs ]_vars

\* C34: for every id the tracker holds no job under, be it never created or
\* removed by a cleanup: incrementProgress and cleanup leave the jobs and the
\* timers as they are, getJob returns undefined and isComplete false; and no
\* step other than a create call adds a job, nor sets a timer for an id
\* without job.
C34_UnknownIdIgnored ==
    /\ [](\A id \in { newJobId(k * cleanupDelay, r) :
                         k \in 0..MaxTicks, r \in 1..(MaxRandom + 1) } \ DOMAIN jobs :
            /\ incrementProgress(jobs, id, trNow) = jobs
            /\ getJob(jobs, id) = [id |-> "undefined"]
            /\ isComplete(jobs, id) = FALSE
            /\ cleanup(jobs, cleanupTimers, id, trNow) = cleanupTimers)
    /\ [][ /\ returnedIds' = returnedIds => DOMAIN jobs' \subseteq DOMAIN jobs
           /\ \A timer \in cleanupTimers' \ cleanupTimers : timer.id \in DOMAIN jobs
           /\ observed'.op = "getJob" =>
                 IF DOMAIN observed'.value = { "id" }
                 THEN /\ jobs' = jobs /\ cleanupTimers' = cleanupTimers
                      /\ \E i \in DOMAIN returnedIds : returnedIds[i] \notin DOMAIN jobs
                 ELSE /\ observed'.value.id \in DOMAIN jobs'
                      /\ observed'.value = jobs'[observed'.value.id]
           /\ observed'.op = "isComplete" =>
                 /\ jobs' = jobs /\ cleanupTimers' = cleanupTimers
                 /\ (\A i \in DOMAIN returnedIds : returnedIds[i] \notin DOMAIN jobs)
                       => observed'.value = FALSE
       ]_vars

\* getJob was called with the id of a job its cleanup had removed, while
\* another job is held
C34_Witness ==
    /\ observed.op = "getJob"
    /\ DOMAIN observed.value = { "id" }
    /\ \E i \in DOMAIN returnedIds : returnedIds[i] \notin DOMAIN jobs
    /\ jobs # << >>
    /\ cleanupTimers = {}

\* C35: what getJob returned is a snapshot: while a caller holds it, a later
\* incrementProgress of that job changes the tracker's record and leaves the
\* held value, its processedLeads and completedAt, as getJob returned it.
C35_GetJobSnapshot ==
    [][ ( /\ observed.op = "getJob"
          /\ observed'.op = "getJob"
          /\ jobs' # jobs ) => observed'.value = observed.value ]_vars

\* ------------------------------------------------------- registry claims
\* C20: the providers of a registry are the enabled configs of the list, each
\* once, in ascending priority; getProvider(name) returns none when the list
\* has no config of that name or the config is disabled.
C20_RegistryOrder ==
    registry.status = "built" =>
        LET ps == registry.providers
        IN  /\ \A i \in DOMAIN configs :
                  configs[i].enabled <=> \E k \in DOMAIN ps : ps[k] = configs[i]
            /\ Len(ps) = Cardinality({ i \in DOMAIN configs : configs[i].enabled })
            /\ \A k \in 1..(Len(ps) - 1) : ps[k].priority <= ps[k + 1].priority
            /\ ( /\ lookedUp.name # "none"
                 /\ ~\E i \in DOMAIN configs : /\ configs[i].name = lookedUp.name
                                               /\ configs[i].enabled )
               => lookedUp.result = [name |-> "undefined"]

\* a registry of two providers built from a list that holds them in the other
\* order beside a disabled config, asked for the disabled one
C20_Witness ==
    /\ registry.status = "built"
    /\ Len(registry.providers) = 2
    /\ Len(configs) = 3
    /\ \E i, j \in DOMAIN configs :
          /\ i < j
          /\ configs[i].enabled /\ configs[j].enabled
          /\ configs[i].priority > configs[j].priority
    /\ \E i \in DOMAIN configs : /\ ~configs[i].enabled
                                 /\ lookedUp.name = configs[i].name
    /\ lookedUp.result = [name |-> "undefined"]

TypeOK ==
    /\ tokens \in 0..(maxTokens * timeWindow)
    /\ activeRequests \in 0..maxConcurrent

====
